---- MODULE Spec2Model ----
(***************************************************************************)
(* Kalah rules engine (src/src/kalah/board.rs) and the Valuation order     *)
(* (src/src/kalah/valuation.rs) of kalah-agent-rs.                         *)
(*                                                                         *)
(* A Board is a record; houses are sequences, so house i of the source     *)
(* (0-based) is element i + 1 here.  A Move is the packed byte of the      *)
(* source: bits 0..6 the house, bit 7 the player.                          *)
(***************************************************************************)
EXTENDS Integers, Sequences, FiniteSets, TLC

VARIABLES board, status, last, va, vb, vc, vres, agent, cell, lock, worker, hist

vars == <<board, status, last, va, vb, vc, vres, agent, cell, lock, worker, hist>>

\* the variables of the search: the agent, the shared SearchState, its mutex,
\* the worker thread, and the history of what the worker did
searchVars == <<agent, cell, lock, worker, hist>>

(***************************************************************************)
(* Bounds of the model.                                                    *)
(***************************************************************************)
\* largest number of houses per side of an initial board
MaxH == 2
\* largest number of seeds (houses and stores together) of an initial board
MaxTotal == 6
\* largest ply counter of an input Valuation
MaxPlies == 2
\* largest absolute score of an input Valuation
MaxScore == 2

(***************************************************************************)
(* Integer widths.                                                         *)
(***************************************************************************)
\* House = u16: additions wrap at 2^16
U16(x) == x % 65536

I32Max == 2147483647

I32Min == (-2147483647) - 1

Min(a, b) == IF a < b THEN a ELSE b

(***************************************************************************)
(* Player and Move.                                                        *)
(***************************************************************************)
Player == {"White", "Black"}

\* impl Not for Player
NotPlayer(p) == IF p = "White" THEN "Black" ELSE "White"

\* Move::new: data = house_num, bit 7 set for Black
MoveNew(house_num, player) == IF player = "Black" THEN house_num + 128 ELSE house_num

\* Move::house: data & 0b0111_1111
MoveHouse(move_) == move_ % 128

\* Move::player: bit 7
MovePlayer(move_) == IF (move_ \div 128) % 2 = 0 THEN "White" ELSE "Black"

\* Move::flip_player
flip_player(move_) == MoveNew(MoveHouse(move_), NotPlayer(MovePlayer(move_)))

(***************************************************************************)
(* Board.                                                                  *)
(***************************************************************************)
\* Board::from_parts
from_parts(h, our_houses, their_houses, our_store, their_store, flipped) ==
    [h |-> h, our_houses |-> our_houses, their_houses |-> their_houses,
     our_store |-> our_store, their_store |-> their_store, flipped |-> flipped]

\* Board::new
new(h, s) == from_parts(h, [i \in 1..h |-> s], [i \in 1..h |-> s], 0, 0, FALSE)

\* sum of a sequence of houses, as iter().sum::<u16>()
RECURSIVE SumHouses(_)
SumHouses(houses) ==
    IF houses = <<>> THEN 0 ELSE U16(Head(houses) + SumHouses(Tail(houses)))

\* mutant of flip_board: the stores stay where they are
flip_board_keep_stores(b) ==
    [b EXCEPT !.our_houses = b.their_houses, !.their_houses = b.our_houses,
              !.flipped = ~b.flipped]

\* Board::flip_board
flip_board(b) ==
    [b EXCEPT !.our_houses = b.their_houses, !.their_houses = b.our_houses,
              !.our_store = b.their_store, !.their_store = b.our_store,
              !.flipped = ~b.flipped]

\* mutant of has_legal_move: true as long as either side has a seed
has_legal_move_either(b) ==
    \/ \E i \in 1..b.h : b.our_houses[i] # 0
    \/ \E i \in 1..b.h : b.their_houses[i] # 0

\* Board::has_legal_move
has_legal_move(b) ==
    /\ \E i \in 1..b.h : b.our_houses[i] # 0
    /\ \E i \in 1..b.h : b.their_houses[i] # 0

\* mutant of finish_game: the houses keep the seeds the stores were given
finish_game_houses_kept(b) ==
    [b EXCEPT !.our_store = U16(@ + SumHouses(b.our_houses)),
              !.their_store = U16(@ + SumHouses(b.their_houses))]

\* mutant of finish_game: the seeds in their houses are dropped
finish_game_ours_only(b) ==
    [b EXCEPT !.our_store = U16(@ + SumHouses(b.our_houses)),
              !.our_houses = [i \in 1..b.h |-> 0],
              !.their_houses = [i \in 1..b.h |-> 0]]

\* Board::finish_game
finish_game(b) ==
    [b EXCEPT !.our_store = U16(@ + SumHouses(b.our_houses)),
              !.their_store = U16(@ + SumHouses(b.their_houses)),
              !.our_houses = [i \in 1..b.h |-> 0],
              !.their_houses = [i \in 1..b.h |-> 0]]

\* for house in houses { *house += k }
AddEach(houses, k) == [i \in DOMAIN houses |-> U16(houses[i] + k)]

\* for house in houses.iter_mut().skip(skip).take(take) { *house += 1 }
IncRange(houses, skip, take) ==
    [i \in DOMAIN houses |->
        IF i > skip /\ i <= skip + take THEN U16(houses[i] + 1) ELSE houses[i]]

\* Board::legal_moves, as the set of its moves
legal_moves(b, player) ==
    LET houses == IF player = "White" THEN b.our_houses ELSE b.their_houses
    IN  {MoveNew(i - 1, player) : i \in {j \in 1..b.h : houses[j] # 0}}

(***************************************************************************)
(* Board::apply_move.  A call yields a record: the board it leaves, the    *)
(* boolean it returns, whether it panicked, and the boards at its inner    *)
(* program points (all in the perspective of the sowing, i.e. after the    *)
(* first flip of a Black move):                                            *)
(*   wpre    the board when the sowing code is entered (line 285)          *)
(*   seeds   seeds_in_hand                                                 *)
(*   sown    the board after the sowing (line 347)                         *)
(*   postcap the board after the capture test (line 364)                   *)
(***************************************************************************)
Panicked(b, wpre) ==
    [board |-> b, ret |-> FALSE, panicked |-> TRUE, wpre |-> wpre, seeds |-> 0,
     sown |-> b, postcap |-> b, captured |-> FALSE, swept |-> FALSE]

\* apply_move, lines 285-347: empty the start house and sow its seeds
sow(b, start_house) ==
    LET h == b.h
        seeds_in_hand == b.our_houses[start_house + 1]
        cycle_length == 2 * h + 1
        num_cycles == seeds_in_hand \div cycle_length
        rem0 == seeds_in_hand % cycle_length
        b0 == [b EXCEPT !.our_houses[start_house + 1] = 0]
        \* complete cycles: every house and our store
        b1 == IF seeds_in_hand > cycle_length
              THEN [b0 EXCEPT !.our_houses = AddEach(@, num_cycles),
                              !.our_store = U16(@ + num_cycles),
                              !.their_houses = AddEach(@, num_cycles)]
              ELSE b0
        \* our houses after the starting house
        n1 == Min(rem0, h - (start_house + 1))
        b2 == [b1 EXCEPT !.our_houses = IncRange(@, start_house + 1, n1)]
        rem1 == rem0 - n1
        \* our store
        b3 == IF rem1 > 0 THEN [b2 EXCEPT !.our_store = U16(@ + 1)] ELSE b2
        rem2 == IF rem1 > 0 THEN rem1 - 1 ELSE rem1
        \* their houses
        n3 == Min(rem2, h)
        b4 == [b3 EXCEPT !.their_houses = IncRange(@, 0, n3)]
        rem3 == rem2 - n3
        \* our houses until the starting house
        n4 == IF rem3 > 0 THEN Min(rem3, h) ELSE 0
        b5 == [b4 EXCEPT !.our_houses = IncRange(@, 0, n4)]
    IN  [board |-> b5, rem |-> rem3 - n4]

\* mutant of last_house_idx: the store is left out of the cycle
last_house_idx_no_store(h, start_house, seeds_in_hand) ==
    (start_house + seeds_in_hand) % (2 * h)

\* apply_move, line 354
last_house_idx(h, start_house, seeds_in_hand) ==
    (start_house + seeds_in_hand) % (2 * h + 1)

\* apply_move, lines 357-360: the capture test
captures(b, idx) ==
    /\ idx < b.h
    /\ b.our_houses[idx + 1] = 1
    /\ b.their_houses[b.h - idx] > 0

\* apply_move, lines 361-363: the capture
capture(b, idx) ==
    [b EXCEPT !.our_store = U16(@ + U16(b.their_houses[b.h - idx] + 1)),
              !.our_houses[idx + 1] = 0,
              !.their_houses[b.h - idx] = 0]

\* mutant of apply_white: the empty-house assertion is missing
apply_white_unchecked(b, move_) ==
    LET start_house == MoveHouse(move_)
        seeds_in_hand == b.our_houses[start_house + 1]
        s == sow(b, start_house)
        idx == last_house_idx(b.h, start_house, seeds_in_hand)
        cap == captures(s.board, idx)
        b6 == IF cap THEN capture(s.board, idx) ELSE s.board
        fin == ~has_legal_move(b6)
        b7 == IF fin THEN finish_game(b6) ELSE b6
    IN  [board |-> b7, ret |-> (idx = b.h), panicked |-> FALSE, wpre |-> b,
         seeds |-> seeds_in_hand, sown |-> s.board, postcap |-> b6,
         captured |-> cap, swept |-> fin]

\* apply_move, lines 285-373: the move of the player the board is turned to
apply_white(b, move_) ==
    CHOOSE res \in
        {LET start_house == MoveHouse(move_)
             seeds_in_hand == b.our_houses[start_house + 1]
             idx == last_house_idx(b.h, start_house, seeds_in_hand)
             cap == captures(s.board, idx)
             b6 == IF cap THEN capture(s.board, idx) ELSE s.board
             fin == ~has_legal_move(b6)
             b7 == IF fin THEN finish_game(b6) ELSE b6
         IN  IF seeds_in_hand = 0 THEN Panicked(b, b)
             ELSE IF s.rem # 0 THEN Panicked(s.board, b)
             ELSE [board |-> b7, ret |-> (idx = b.h), panicked |-> FALSE, wpre |-> b,
                   seeds |-> seeds_in_hand, sown |-> s.board, postcap |-> b6,
                   captured |-> cap, swept |-> fin]
         : s \in {sow(b, MoveHouse(move_))}} : TRUE

RECURSIVE apply_move(_, _)

\* mutant of apply_move: a Black move does not flip the board back
apply_move_no_flip_back(b, move_) ==
    IF ~(MoveHouse(move_) < b.h)
    THEN Panicked(b, b)
    ELSE IF MovePlayer(move_) = "Black"
         THEN apply_white(flip_board(b), flip_player(move_))
         ELSE apply_white(b, move_)

\* Board::apply_move
apply_move(b, move_) ==
    IF ~(MoveHouse(move_) < b.h)
    THEN Panicked(b, b)
    ELSE IF MovePlayer(move_) = "Black"
         THEN LET r == apply_move(flip_board(b), flip_player(move_))
              IN  IF r.panicked THEN r ELSE [r EXCEPT !.board = flip_board(r.board)]
         ELSE apply_white(b, move_)

(***************************************************************************)
(* Valuation.  One record shape for the four variants; the field a variant *)
(* does not have is 0.                                                     *)
(***************************************************************************)
NonTerminal(value) == [kind |-> "NonTerminal", value |-> value, plies |-> 0]

TerminalWhiteWin(plies) == [kind |-> "TerminalWhiteWin", value |-> 0, plies |-> plies]

TerminalBlackWin(plies) == [kind |-> "TerminalBlackWin", value |-> 0, plies |-> plies]

TerminalDraw(plies) == [kind |-> "TerminalDraw", value |-> 0, plies |-> plies]

\* -value on i32, two's complement
NegI32(value) == IF value = I32Min THEN I32Min ELSE -value

\* mutant of neg: a win stays with the same player
neg_keep_winner(v) ==
    IF v.kind = "NonTerminal" THEN NonTerminal(NegI32(v.value)) ELSE v

\* mutant of neg: the score keeps its sign
neg_keep_sign(v) ==
    CASE v.kind = "NonTerminal" -> v
      [] v.kind = "TerminalWhiteWin" -> TerminalBlackWin(v.plies)
      [] v.kind = "TerminalBlackWin" -> TerminalWhiteWin(v.plies)
      [] v.kind = "TerminalDraw" -> TerminalDraw(v.plies)

\* impl Neg for Valuation
neg(v) ==
    CASE v.kind = "NonTerminal" -> NonTerminal(NegI32(v.value))
      [] v.kind = "TerminalWhiteWin" -> TerminalBlackWin(v.plies)
      [] v.kind = "TerminalBlackWin" -> TerminalWhiteWin(v.plies)
      [] v.kind = "TerminalDraw" -> TerminalDraw(v.plies)

\* mutant of increase_plies: a draw keeps its ply counter
increase_plies_wins_only(v) ==
    IF v.kind \in {"NonTerminal", "TerminalDraw"} THEN v ELSE [v EXCEPT !.plies = @ + 1]

\* Valuation::increase_plies; plies is a u32 and stays below the depth of the
\* search, far from the width where the addition would overflow
increase_plies(v) ==
    IF v.kind = "NonTerminal" THEN v ELSE [v EXCEPT !.plies = @ + 1]

\* Ord::cmp on integers
IntCmp(x, y) == IF x < y THEN "Less" ELSE IF x > y THEN "Greater" ELSE "Equal"

\* Ordering::reverse
Reverse(o) == IF o = "Less" THEN "Greater" ELSE IF o = "Greater" THEN "Less" ELSE "Equal"

\* mutant of cmp: among Black wins the shorter one is the greater
cmp_black_reversed(a, b) ==
    IF a.kind = "TerminalWhiteWin" /\ b.kind = "TerminalWhiteWin"
        THEN Reverse(IntCmp(a.plies, b.plies))
    ELSE IF a.kind = "TerminalWhiteWin" THEN "Greater"
    ELSE IF b.kind = "TerminalWhiteWin" THEN "Less"
    ELSE IF a.kind = "NonTerminal" /\ b.kind = "NonTerminal"
        THEN IntCmp(a.value, b.value)
    ELSE IF a.kind = "NonTerminal" /\ b.kind = "TerminalDraw" THEN IntCmp(a.value, 0)
    ELSE IF a.kind = "TerminalDraw" /\ b.kind = "NonTerminal" THEN IntCmp(0, b.value)
    ELSE IF a.kind = "TerminalDraw" /\ b.kind = "TerminalDraw"
        THEN IntCmp(a.plies, b.plies)
    ELSE IF a.kind = "TerminalBlackWin" /\ b.kind = "TerminalBlackWin"
        THEN Reverse(IntCmp(a.plies, b.plies))
    ELSE IF a.kind = "TerminalBlackWin" THEN "Less"
    ELSE "Greater"

\* impl Ord for Valuation: the match arms in their order
cmp(a, b) ==
    IF a.kind = "TerminalWhiteWin" /\ b.kind = "TerminalWhiteWin"
        THEN Reverse(IntCmp(a.plies, b.plies))
    ELSE IF a.kind = "TerminalWhiteWin" THEN "Greater"
    ELSE IF b.kind = "TerminalWhiteWin" THEN "Less"
    ELSE IF a.kind = "NonTerminal" /\ b.kind = "NonTerminal"
        THEN IntCmp(a.value, b.value)
    ELSE IF a.kind = "NonTerminal" /\ b.kind = "TerminalDraw" THEN IntCmp(a.value, 0)
    ELSE IF a.kind = "TerminalDraw" /\ b.kind = "NonTerminal" THEN IntCmp(0, b.value)
    ELSE IF a.kind = "TerminalDraw" /\ b.kind = "TerminalDraw"
        THEN IntCmp(a.plies, b.plies)
    ELSE IF a.kind = "TerminalBlackWin" /\ b.kind = "TerminalBlackWin"
        THEN IntCmp(a.plies, b.plies)
    ELSE IF a.kind = "TerminalBlackWin" THEN "Less"
    ELSE "Greater"

\* the match on store_diff of the terminal branch (valuation.rs 112-117)
terminal_valuation(store_diff) ==
    IF store_diff > 0 THEN TerminalWhiteWin(0)
    ELSE IF store_diff < 0 THEN TerminalBlackWin(0)
    ELSE TerminalDraw(0)

\* mutant of store_diff_valuation: a finished board is scored like any other
store_diff_valuation_never_terminal(b) ==
    NonTerminal(b.our_store - b.their_store)

\* store_diff_valuation: the stores are u16 widened to i32
store_diff_valuation(b) ==
    LET store_diff == b.our_store - b.their_store
    IN  IF ~has_legal_move(b) THEN terminal_valuation(store_diff)
        ELSE NonTerminal(store_diff)

\* mutant of seed_diff_valuation: the seeds of the real First player count for,
\* those of the real Second player against, whichever side the board shows
seed_diff_valuation_first_player(b) ==
    LET sign == IF b.flipped THEN 0 - 1 ELSE 1
    IN  IF ~has_legal_move(b) THEN terminal_valuation(sign * (b.our_store - b.their_store))
        ELSE NonTerminal(sign * (b.our_store + SumHouses(b.our_houses)
                                     - b.their_store - SumHouses(b.their_houses)))

\* seed_diff_valuation: the house sums are u16 sums widened to i32
seed_diff_valuation(b) ==
    LET our_houses_sum == SumHouses(b.our_houses)
        their_houses_sum == SumHouses(b.their_houses)
    IN  IF ~has_legal_move(b) THEN terminal_valuation(b.our_store - b.their_store)
        ELSE NonTerminal(b.our_store + our_houses_sum - b.their_store - their_houses_sum)

(***************************************************************************)
(* Inputs.                                                                 *)
(***************************************************************************)
\* the sequences of len naturals whose sum is at most total
RECURSIVE SeqsUpTo(_, _)
SeqsUpTo(len, total) ==
    IF len = 0 THEN {<<>>}
    ELSE UNION {{<<x>> \o t : t \in SeqsUpTo(len - 1, total - x)} : x \in 0..total}

\* the boards of h houses a side holding at most MaxTotal seeds
Boards(h) ==
    {from_parts(h, SubSeq(q, 1, h), SubSeq(q, h + 1, 2 * h), q[2 * h + 1], q[2 * h + 2], f) :
        q \in SeqsUpTo(2 * h + 2, MaxTotal), f \in BOOLEAN}

\* the scores of the input valuations: differences of seed counts around 0
Scores == (-MaxScore)..MaxScore

Valuations ==
    {NonTerminal(x) : x \in Scores}
        \cup {TerminalWhiteWin(p) : p \in 0..MaxPlies}
        \cup {TerminalBlackWin(p) : p \in 0..MaxPlies}
        \cup {TerminalDraw(p) : p \in 0..MaxPlies}

\* the moves a caller may hand to apply_move, one house beyond the board included
Moves == {MoveNew(i, p) : i \in 0..MaxH, p \in Player}

(***************************************************************************)
(* The board under a caller that applies moves and flips.                  *)
(***************************************************************************)
NoCall(b) ==
    [board |-> b, ret |-> FALSE, panicked |-> FALSE, wpre |-> b, seeds |-> 0,
     sown |-> b, postcap |-> b, captured |-> FALSE, swept |-> FALSE]

\* no valuation function has been called
NoEval == [store_diff |-> NonTerminal(0), seed_diff |-> NonTerminal(0)]

NoResult ==
    [op |-> "none", ab |-> "Equal", ba |-> "Equal", bc |-> "Equal", ac |-> "Equal",
     na |-> NonTerminal(0), nb |-> NonTerminal(0), nna |-> NonTerminal(0),
     nanb |-> "Equal"]

(***************************************************************************)
(* The agent, the shared SearchState and the worker before any search.     *)
(***************************************************************************)
\* Move::new(127, Player::White): the move minimax returns when it has none
Placeholder == MoveNew(127, "White")

\* MinimaxAgent::new: state Waiting, search_state None; pc is the agent's place
\* inside get_current_best_move, saw and ret what that call read
AgentNew == [state |-> "Waiting", search_state |-> FALSE, pc |-> "idle",
             saw |-> TRUE, ret |-> Placeholder]

\* no SearchState has been created
NoCell == [search_active |-> FALSE, current_best_move |-> Placeholder,
           principal_variation |-> <<>>]

\* no worker thread has been spawned
NoWorker(variant, b) ==
    [variant |-> variant, pc |-> "unborn", board |-> b, max_depth |-> 0, iters |-> 0,
     stage |-> "main", stack |-> <<>>, best_move |-> Placeholder,
     best_value |-> TerminalBlackWin(0), pv |-> <<>>, idx |-> 0]

\* history of a search: the board and the fallback move it started with, the
\* depths whose search ran to its end unobserved by a cancellation, the
\* worker's writes of the decision, and what the SearchState held when the
\* controller cleared the flag
NoHist(b) ==
    [root |-> b, fallback |-> Placeholder, results |-> <<>>, writes |-> <<>>,
     cleared |-> FALSE,
     at_clear |-> [move |-> Placeholder, line |-> <<>>, results |-> 0, writes |-> 0,
                   budget |-> 0],
     after |-> 0, won |-> FALSE]

InitSearchIdle ==
    /\ agent = AgentNew
    /\ cell = NoCell
    /\ lock = "none"
    /\ worker = NoWorker("tournament", board)
    /\ hist = NoHist(board)

InitBoard ==
    /\ board \in UNION {Boards(h) : h \in 1..MaxH}
    /\ status = "running"
    /\ last = [op |-> "none", move |-> 0, pre |-> board, call |-> NoCall(board), val |-> NoEval]

InitValuationIdle ==
    /\ va = NonTerminal(0)
    /\ vb = NonTerminal(0)
    /\ vc = NonTerminal(0)
    /\ vres = NoResult

Init == InitBoard /\ InitValuationIdle /\ InitSearchIdle

\* board.apply_move(move_), legal or not; a panic ends the run
ApplyMove(move_) ==
    /\ status = "running"
    /\ LET r == apply_move(board, move_)
       IN  /\ board' = r.board
           /\ status' = IF r.panicked THEN "panicked" ELSE "running"
           /\ last' = [op |-> "apply_move", move |-> move_, pre |-> board, call |-> r,
                      val |-> NoEval]
    /\ UNCHANGED <<va, vb, vc, vres>>
    /\ UNCHANGED searchVars

\* board.flip_board()
FlipBoard ==
    /\ status = "running"
    /\ board' = flip_board(board)
    /\ last' = [op |-> "flip_board", move |-> 0, pre |-> board, call |-> NoCall(board),
                 val |-> NoEval]
    /\ UNCHANGED <<status, va, vb, vc, vres>>
    /\ UNCHANGED searchVars

\* store_diff_valuation(&board) and seed_diff_valuation(&board)
Evaluate ==
    /\ status = "running"
    /\ last' = [op |-> "evaluate", move |-> 0, pre |-> board, call |-> NoCall(board),
                 val |-> [store_diff |-> store_diff_valuation(board),
                          seed_diff |-> seed_diff_valuation(board)]]
    /\ UNCHANGED <<board, status, va, vb, vc, vres>>
    /\ UNCHANGED searchVars

Next ==
    \/ \E move_ \in Moves : ApplyMove(move_)
    \/ FlipBoard
    \/ Evaluate

Spec == Init /\ [][Next]_vars

(***************************************************************************)
(* The Valuation operators on drawn inputs.                                *)
(***************************************************************************)
InitVal ==
    /\ board = new(1, 1)
    /\ status = "running"
    /\ last = [op |-> "none", move |-> 0, pre |-> board, call |-> NoCall(board), val |-> NoEval]
    /\ va \in Valuations
    /\ vb \in Valuations
    /\ vc \in Valuations
    /\ vres = NoResult
    /\ InitSearchIdle

\* a.cmp(&b), b.cmp(&a), b.cmp(&c), a.cmp(&c)
Compare ==
    /\ vres' = [NoResult EXCEPT !.op = "cmp", !.ab = cmp(va, vb), !.ba = cmp(vb, va),
                                !.bc = cmp(vb, vc), !.ac = cmp(va, vc)]
    /\ UNCHANGED <<board, status, last, va, vb, vc>>
    /\ UNCHANGED searchVars

\* -a, -b, -(-a), and (-a).cmp(&-b) next to a.cmp(&b)
Negate ==
    /\ vres' = [NoResult EXCEPT !.op = "neg", !.na = neg(va), !.nb = neg(vb),
                                !.nna = neg(neg(va)), !.ab = cmp(va, vb),
                                !.nanb = cmp(neg(va), neg(vb))]
    /\ UNCHANGED <<board, status, last, va, vb, vc>>
    /\ UNCHANGED searchVars

NextVal == Compare \/ Negate

SpecVal == InitVal /\ [][NextVal]_vars

(***************************************************************************)
(* The searches.  Three workers share one shape: tournament/search.rs      *)
(* (alpha-beta, depths 6, 7, ...), minimax2/search.rs (full width, depths  *)
(* 0, 1, ...) and pvs/search.rs (alpha-beta carrying a principal line,     *)
(* depths 1, 2, ...).  The controller is the MinimaxAgent of               *)
(* minimax2/minimax_agent.rs.  The worker thread and the agent's thread    *)
(* interleave at every access to the mutex of the SearchState: taking the  *)
(* lock is one step of the worker, the critical section with its release   *)
(* the next, and the code between two lock accesses (which touches only    *)
(* the worker's own stack) is one more.  The agent holds the lock for one  *)
(* field access at a time, which is one step.                              *)
(***************************************************************************)
\* passes of the deepening loop a worker runs while the search stays active
MaxIters == 2
\* largest number of seeds on a board a search is started on
MaxSearchSeeds == 3

Variants == {"tournament", "minimax2", "pvs"}

LINE_MAX_SIZE == 100

\* the first value of max_depth: for max_depth in 6.. / 0.. / 1..
first_depth(variant) ==
    IF variant = "tournament" THEN 6 ELSE IF variant = "minimax2" THEN 0 ELSE 1

\* tournament: VALUATION_FN; minimax2 and pvs: the valuation_fn of the agent
VALUATION_FN(b) == store_diff_valuation(b)

\* mutant of is_legal_move: our houses are looked at for either player
is_legal_move_ours(b, move_) == b.our_houses[MoveHouse(move_) + 1] # 0

\* Board::is_legal_move
is_legal_move(b, move_) ==
    IF MovePlayer(move_) = "White" THEN b.our_houses[MoveHouse(move_) + 1] # 0
    ELSE b.their_houses[MoveHouse(move_) + 1] # 0

\* Board::legal_moves as the Vec it returns, in house order
RECURSIVE legal_moves_from(_, _, _)
legal_moves_from(houses, player, i) ==
    IF i > Len(houses) THEN <<>>
    ELSE (IF houses[i] # 0 THEN <<MoveNew(i - 1, player)>> ELSE <<>>)
             \o legal_moves_from(houses, player, i + 1)

legal_move_list(b, player) ==
    legal_moves_from(IF player = "White" THEN b.our_houses ELSE b.their_houses, player, 1)

\* A Line is the sequence of its first len moves: the array beyond len is
\* never read.  Line::append and its assertion
append_fits(line, other) == Len(line) + Len(other) < LINE_MAX_SIZE

append(line, other) == line \o other

\* Line::overwrite and its assertions (its own and the one of append)
overwrite_fits(tail) == Len(tail) < LINE_MAX_SIZE /\ 1 + Len(tail) < LINE_MAX_SIZE

overwrite(head, tail) == <<head>> \o tail

\* Option<Move>::None
NoMove == 0 - 1

\* Line::best_move
best_move(line) == IF Len(line) > 0 THEN line[1] ELSE NoMove

\* new_shared_minimax_search_state; the controller of the pvs search is not
\* among the sources: its SearchState starts with the line of the fallback
seed_line(fallback_move) == <<fallback_move>>

\* mutant of new_shared_minimax_search_state: the flag starts false
new_shared_minimax_search_state_inactive(search_active, fallback_move) ==
    [search_active |-> FALSE, current_best_move |-> fallback_move,
     principal_variation |-> seed_line(fallback_move)]

new_shared_minimax_search_state(search_active, fallback_move) ==
    [search_active |-> search_active, current_best_move |-> fallback_move,
     principal_variation |-> seed_line(fallback_move)]

(***************************************************************************)
(* minimax of tournament and pvs on an explicit stack, the running call    *)
(* first.  A frame holds the arguments and locals of one call; the line a  *)
(* call was handed by reference is copied in and handed back on return.    *)
(***************************************************************************)
NewFrame(b, remaining_depth, alpha, beta, principal_line) ==
    [board |-> b, remaining_depth |-> remaining_depth, alpha |-> alpha, beta |-> beta,
     best_move |-> Placeholder, best_value |-> TerminalBlackWin(0),
     house |-> 0 - 1, their_turn |-> FALSE,
     principal_line |-> principal_line, search_line |-> <<>>]

\* the worker's position after a stretch of minimax: the stack at the entry
\* of the next call, or the return of the root call
AtCall(stack) ==
    [stack |-> stack, done |-> FALSE, panicked |-> FALSE, move |-> Placeholder,
     value |-> NonTerminal(0), line |-> <<>>]

AtReturn(rv) ==
    [stack |-> <<>>, done |-> TRUE, panicked |-> FALSE, move |-> rv.move,
     value |-> rv.value, line |-> rv.line]

AtPanic(stack) ==
    [stack |-> stack, done |-> TRUE, panicked |-> TRUE, move |-> Placeholder,
     value |-> NonTerminal(0), line |-> <<>>]

RECURSIVE Advance(_, _, _)
RECURSIVE Return(_, _, _)
\* mutant of Descend: an extra turn starts the call over on its own board
Descend_again(stack, house, r) ==
    LET f == Head(stack)
    IN  IF ~r.ret
        THEN AtCall(<<NewFrame(flip_board(r.board), f.remaining_depth - 1,
                               neg(f.beta), neg(f.alpha), f.search_line),
                      [f EXCEPT !.house = house, !.their_turn = TRUE]>> \o Tail(stack))
        ELSE AtCall(<<NewFrame(f.board, f.remaining_depth, f.alpha, f.beta,
                               f.principal_line)>> \o Tail(stack))

\* lines 60-70 / 169-179 for the move out of `house`, r being what apply_move
\* gave: the call of the child
Descend(stack, house, r) ==
    CHOOSE res \in
        {LET f == Head(stack)
             child ==
                 IF ~q.ret
                 THEN NewFrame(flip_board(q.board), f.remaining_depth - 1,
                               neg(f.beta), neg(f.alpha), f.search_line)
                 ELSE NewFrame(q.board, f.remaining_depth, f.alpha, f.beta, f.search_line)
         IN  AtCall(<<child, [f EXCEPT !.house = house, !.their_turn = ~q.ret]>>
                        \o Tail(stack))
         : q \in {r}} : TRUE

\* the for loop of the running call from house `from` on, up to its next
\* recursive call or its return.  (Here and below an argument is drawn from
\* a one-element set where that lets it be evaluated once.)
Advance(variant, stack, from) ==
    CHOOSE res \in
        {LET f == Head(s)
             houses == {i \in from..(f.board.h - 1) :
                           is_legal_move(f.board, MoveNew(i, "White"))}
             house == CHOOSE i \in houses : \A j \in houses : i <= j
         IN  IF houses = {}
             THEN Return(variant, Tail(s),
                         [move |-> f.best_move, value |-> f.best_value,
                          line |-> f.principal_line])
             ELSE Descend(s, house, apply_move(f.board, MoveNew(house, "White")))
         : s \in {stack}} : TRUE

\* lines 84-86 / 191-196: alpha, and in pvs the line, follow an improvement;
\* then the loop goes on
Improve(variant, g, rest, value, improves) ==
    CHOOSE res \in
        {IF i /\ variant = "pvs" /\ ~overwrite_fits(h.search_line) THEN AtPanic(<<h>> \o rest)
         ELSE Advance(variant,
                      <<[h EXCEPT
                           !.alpha = IF ~i THEN @
                                     ELSE IF variant = "pvs" THEN value ELSE h.best_value,
                           !.principal_line =
                               IF i /\ variant = "pvs"
                               THEN overwrite(MoveNew(h.house, "White"), h.search_line)
                               ELSE @]>> \o rest,
                      h.house + 1)
         : h \in {g}, i \in {improves}} : TRUE

\* mutant of Update: the first move examined stays the best move
Update_first_move(variant, stack, search_line, value, better, cutoff) ==
    LET f == Head(stack)
        g == [f EXCEPT !.search_line = search_line,
                       !.best_move = IF better /\ f.best_move = Placeholder
                                     THEN MoveNew(f.house, "White") ELSE @,
                       !.best_value = IF better THEN value ELSE @]
    IN  IF cutoff
        THEN Return(variant, Tail(stack),
                    [move |-> g.best_move, value |-> g.best_value, line |-> f.principal_line])
        ELSE Improve(variant, g, Tail(stack), value,
                     cmp(g.best_value, f.alpha) = "Greater")

\* lines 73-81 / 182-189: the best value and move, and the beta cutoff
Update(variant, stack, search_line, value, better, cutoff) ==
    LET f == Head(stack)
        g == [f EXCEPT !.search_line = search_line,
                       !.best_move = IF better THEN MoveNew(f.house, "White") ELSE @,
                       !.best_value = IF better THEN value ELSE @]
    IN  IF cutoff
        THEN Return(variant, Tail(stack),
                    [move |-> g.best_move, value |-> g.best_value, line |-> f.principal_line])
        ELSE Improve(variant, g, Tail(stack), value,
                     cmp(g.best_value, f.alpha) = "Greater")

\* mutant of Judge: no beta cutoff
Judge_no_cutoff(variant, stack, search_line, value) ==
    Update(variant, stack, search_line, value,
           cmp(value, Head(stack).best_value) # "Less", FALSE)

\* the comparisons of lines 73 and 78 / 182 and 186
Judge(variant, stack, search_line, value) ==
    CHOOSE res \in
        {Update(variant, stack, search_line, v, better, cutoff)
         : v \in {value},
           better \in {cmp(value, Head(stack).best_value) # "Less"},
           cutoff \in {cmp(value, Head(stack).beta) = "Greater"}} : TRUE

\* a call returned rv to the call below it, which goes on from line 63 / 172
Return(variant, stack, rv) ==
    CHOOSE res \in
        {IF s = <<>> THEN AtReturn(v)
         ELSE Judge(variant, s,
                    IF variant = "pvs" THEN v.line ELSE Head(s).search_line,
                    increase_plies(IF Head(s).their_turn THEN neg(v.value) ELSE v.value))
         : s \in {stack}, v \in {rv}} : TRUE

\* the running call found the search active: lines 42-52 / 147-161
Enter(variant, stack) ==
    LET f == Head(stack)
    IN  IF f.remaining_depth = 0 \/ ~has_legal_move(f.board)
        THEN Return(variant, Tail(stack),
                    [move |-> Placeholder, value |-> VALUATION_FN(f.board), line |-> <<>>])
        ELSE Advance(variant, stack, 0)

\* the running call found the search ended: lines 37-40 / 142-145
Cancelled(variant, stack) ==
    Return(variant, Tail(stack),
           [move |-> Placeholder, value |-> NonTerminal(0),
            line |-> Head(stack).principal_line])

\* extend_pv, lines 113-119: the line replayed on a clone of the board
RECURSIVE replay(_, _)
replay_next(r, rest) ==
    CHOOSE res \in
        {IF q.panicked THEN [board |-> q.board, panicked |-> TRUE]
         ELSE replay(IF q.ret THEN q.board ELSE flip_board(q.board), rest)
         : q \in {r}} : TRUE

replay(b, line) ==
    IF line = <<>> THEN [board |-> b, panicked |-> FALSE]
    ELSE replay_next(apply_move(b, Head(line)), Tail(line))

(***************************************************************************)
(* minimax of minimax2: it never looks at the SearchState, so a call with  *)
(* all the calls below it is one step of the worker.                       *)
(***************************************************************************)
RECURSIVE minimax2(_, _)
RECURSIVE minimax2_loop(_, _, _, _)
\* lines 80-106: the value of the child apply_move led to
child_value(r, remaining_depth) ==
    CHOOSE res \in
        {IF ~q.ret
         THEN neg(increase_plies(minimax2(flip_board(q.board), remaining_depth - 1)))
         ELSE increase_plies(minimax2(q.board, remaining_depth))
         : q \in {r}} : TRUE

\* lines 116-118
keep_best(b, remaining_depth, rest, best_value, value) ==
    CHOOSE res \in
        {minimax2_loop(b, remaining_depth, rest,
                       IF cmp(v, best_value) = "Greater" THEN v ELSE best_value)
         : v \in {value}} : TRUE

\* for next_move in legal_moves, lines 75-129
minimax2_loop(b, remaining_depth, moves, best_value) ==
    CHOOSE res \in
        {IF moves = <<>> THEN best
         ELSE keep_best(c, remaining_depth, Tail(moves), best,
                        child_value(apply_move(c, Head(moves)), remaining_depth))
         : c \in {b}, best \in {best_value}} : TRUE

minimax2(b, remaining_depth) ==
    IF remaining_depth = 0 \/ ~has_legal_move(b) THEN VALUATION_FN(b)
    ELSE minimax2_loop(b, remaining_depth, legal_move_list(b, "White"), TerminalBlackWin(0))

\* minimax2 start_search, lines 166-185: the value of a root move, r being
\* what apply_move gave
root_value(r, max_depth) ==
    CHOOSE res \in
        {IF ~q.ret THEN neg(minimax2(flip_board(q.board), max_depth))
         ELSE minimax2(q.board, max_depth)
         : q \in {r}} : TRUE

(***************************************************************************)
(* The agent's calls and the worker's steps.                               *)
(***************************************************************************)
\* the boards a search is started on: no seed in a store yet
SearchBoards ==
    UNION {{from_parts(h, SubSeq(q, 1, h), SubSeq(q, h + 1, 2 * h), 0, 0, FALSE) :
                q \in SeqsUpTo(2 * h, MaxSearchSeeds)} : h \in 1..MaxH}

InitSearch ==
    /\ board \in SearchBoards
    /\ status = "running"
    /\ last = [op |-> "none", move |-> 0, pre |-> board, call |-> NoCall(board), val |-> NoEval]
    /\ InitValuationIdle
    /\ agent = AgentNew
    /\ cell = NoCell
    /\ lock = "none"
    /\ worker \in {NoWorker(variant, board) : variant \in Variants}
    /\ hist = NoHist(board)

\* the decision a consumer takes out of the SearchState
decision(variant, c) ==
    IF variant = "pvs" THEN best_move(c.principal_variation) ELSE c.current_best_move

\* the calls minimax still makes once it finds the search ended at every
\* entry: the running call, and a sibling for each legal house the loops of
\* the calls below it have not come to
RemainingCalls(stack) ==
    LET legal_after(f) ==
            Cardinality({i \in (f.house + 1)..(f.board.h - 1) :
                            is_legal_move(f.board, MoveNew(i, "White"))})
        RECURSIVE count(_)
        count(s) == IF s = <<>> THEN 0 ELSE legal_after(Head(s)) + count(Tail(s))
    IN  IF stack = <<>> THEN 0 ELSE 1 + count(stack)

\* the steps start_search takes around the root call when the flag is
\* cleared just after its check: the write (2), the loop head (1), the root
\* calls of extend_pv and of the next depth (3 each), the check (2)
TailSteps == 2 + 1 + 3 + 3 + 2

\* one more step of the worker after the controller cleared the flag
Tick(h) == IF h.cleared THEN [h EXCEPT !.after = @ + 1] ELSE h

\* MinimaxAgent::go; one search is followed per run
Go ==
    /\ status = "running"
    /\ agent.pc = "idle"
    /\ worker.pc = "unborn"
    /\ IF legal_moves(board, "White") = {} \/ ~has_legal_move(board)
       THEN /\ status' = "panicked"
            /\ UNCHANGED <<agent, cell, worker, hist>>
       ELSE LET fallback_move == Head(legal_move_list(board, "White"))
            IN  /\ cell' = new_shared_minimax_search_state(TRUE, fallback_move)
                /\ worker' = [NoWorker(worker.variant, board) EXCEPT
                                 !.pc = "iterate",
                                 !.max_depth = first_depth(worker.variant)]
                /\ agent' = [agent EXCEPT !.state = "Go", !.search_state = TRUE]
                /\ hist' = [NoHist(board) EXCEPT !.fallback = fallback_move]
                /\ UNCHANGED status
    /\ UNCHANGED <<board, last, va, vb, vc, vres, lock>>

\* MinimaxAgent::update_board, by a consumer that plays the move it was
\* given on the board of the search and hands the agent the opponent's view
UpdateBoard ==
    /\ status = "running"
    /\ agent.pc = "idle"
    /\ worker.pc # "unborn"
    /\ board = hist.root
    /\ agent.ret \in legal_moves(board, "White")
    /\ board' = flip_board(apply_move(board, agent.ret).board)
    /\ UNCHANGED <<status, last, va, vb, vc, vres, agent, cell, lock, worker, hist>>

\* MinimaxAgent::stop that drops the handle and leaves the flag as it is
Stop_flag_kept ==
    /\ status = "running"
    /\ agent.pc = "idle"
    /\ IF ~agent.search_state
       THEN /\ agent' = [agent EXCEPT !.state = "Waiting"]
            /\ status' = "panicked"
            /\ UNCHANGED <<cell, hist>>
       ELSE /\ lock = "none"
            /\ agent' = [agent EXCEPT !.state = "Waiting", !.search_state = FALSE]
            /\ hist' = [hist EXCEPT !.cleared = TRUE]
            /\ UNCHANGED <<cell, status>>
    /\ UNCHANGED <<board, last, va, vb, vc, vres, lock, worker>>

\* MinimaxAgent::stop
Stop ==
    /\ status = "running"
    /\ agent.pc = "idle"
    /\ IF ~agent.search_state
       THEN /\ agent' = [agent EXCEPT !.state = "Waiting"]
            /\ status' = "panicked"
            /\ UNCHANGED <<cell, hist>>
       ELSE /\ lock = "none"
            /\ cell' = [cell EXCEPT !.search_active = FALSE]
            /\ agent' = [agent EXCEPT !.state = "Waiting", !.search_state = FALSE]
            /\ hist' = [hist EXCEPT
                           !.cleared = TRUE,
                           !.at_clear = [move |-> cell.current_best_move,
                                         line |-> cell.principal_variation,
                                         results |-> Len(hist.results),
                                         writes |-> Len(hist.writes),
                                         budget |-> 3 * RemainingCalls(worker.stack)
                                                        + TailSteps]]
            /\ UNCHANGED status
    /\ UNCHANGED <<board, last, va, vb, vc, vres, lock, worker>>

\* MinimaxAgent::get_current_best_move, lines 37-41: the flag is read
GetCurrentBestMove ==
    /\ status = "running"
    /\ agent.pc = "idle"
    /\ IF agent.state # "Go"
       THEN /\ status' = "panicked"
            /\ UNCHANGED agent
       ELSE /\ lock = "none"
            /\ agent' = [agent EXCEPT
                            !.saw = cell.search_active,
                            !.state = IF cell.search_active THEN "Go" ELSE "Waiting",
                            !.pc = "get_move"]
            /\ UNCHANGED status
    /\ UNCHANGED <<board, last, va, vb, vc, vres, cell, lock, worker, hist>>

\* MinimaxAgent::get_current_best_move, line 43: the move is read and returned
ReturnBestMove ==
    /\ status = "running"
    /\ agent.pc = "get_move"
    /\ lock = "none"
    /\ agent' = [agent EXCEPT !.ret = decision(worker.variant, cell), !.pc = "idle"]
    /\ UNCHANGED <<board, status, last, va, vb, vc, vres, cell, lock, worker, hist>>

\* the places where the worker is about to lock the SearchState, or holds it
LockPoints == {"enter", "after_search", "publish", "final", "loop_check", "deactivate"}

\* search_state.lock().unwrap() of the worker
WorkerLock ==
    /\ worker.pc \in LockPoints
    /\ lock = "none"
    /\ lock' = "worker"
    /\ hist' = Tick(hist)
    /\ UNCHANGED <<board, status, last, va, vb, vc, vres, agent, cell, worker>>

\* a guard that outlives the condition it was taken in
lock_after_condition_held == "worker"

\* the MutexGuard of a lock taken in the condition of an `if` is dropped at
\* the end of the condition
lock_after_condition == "none"

\* pvs start_search, lines 219-226: the depth is checked against the size of
\* a Line, the line replayed, and the root call of extend_pv made
iterate_pvs(w, replayed) ==
    IF w.max_depth > LINE_MAX_SIZE \/ replayed.panicked THEN [w EXCEPT !.pc = "panicked"]
    ELSE [w EXCEPT !.stack = <<NewFrame(replayed.board, 1, TerminalBlackWin(0),
                                        TerminalWhiteWin(0), <<>>)>>,
                   !.stage = "extend", !.pc = "enter"]

\* start_search: the head of one pass of `for max_depth in ..`, up to the
\* first access to the SearchState.  A pass beyond MaxIters is taken only
\* once the search has been ended.
Iterate ==
    /\ worker.pc = "iterate"
    /\ worker.iters < MaxIters \/ ~cell.search_active
    /\ worker' =
           IF worker.variant = "tournament"
           THEN [worker EXCEPT
                    !.stack = <<NewFrame(worker.board, worker.max_depth,
                                         TerminalBlackWin(0), TerminalWhiteWin(0), <<>>)>>,
                    !.stage = "main", !.pc = "enter"]
           ELSE IF worker.variant = "minimax2"
           THEN [worker EXCEPT
                    !.best_value = TerminalBlackWin(0),
                    !.best_move = legal_move_list(worker.board, "White")[1],
                    !.idx = 1, !.pc = "loop_check"]
           ELSE iterate_pvs(worker, replay(worker.board, worker.pv))
    /\ hist' = Tick(hist)
    /\ UNCHANGED <<board, status, last, va, vb, vc, vres, agent, cell, lock>>

\* a call that goes on whatever the flag says
entry_target_ignore(search_active) == "expand"

\* minimax, lines 37-40 / 142-145: a call goes on only if the search is active
entry_target(search_active) == IF search_active THEN "expand" ELSE "cancelled"

\* minimax, line 37 / 142: the flag read at the entry of a call
CheckEntry ==
    /\ worker.pc = "enter"
    /\ lock = "worker"
    /\ lock' = lock_after_condition
    /\ worker' = [worker EXCEPT !.pc = entry_target(cell.search_active)]
    /\ hist' = Tick(hist)
    /\ UNCHANGED <<board, status, last, va, vb, vc, vres, agent, cell>>

\* the worker after a stretch of minimax that ended as res: at the next
\* call, or past the return of the root call of extend_pv (lines 128, 228) or
\* of start_search (line 102 / 228)
expanded(w, res) ==
    IF res.panicked THEN [w EXCEPT !.pc = "panicked"]
    ELSE IF ~res.done THEN [w EXCEPT !.stack = res.stack, !.pc = "enter"]
    ELSE IF w.stage = "extend"
    THEN IF ~append_fits(w.pv, res.line) THEN [w EXCEPT !.pc = "panicked"]
         ELSE [w EXCEPT
                  !.pv = append(w.pv, res.line), !.stage = "main", !.pc = "enter",
                  !.stack = <<NewFrame(w.board, w.max_depth, TerminalBlackWin(0),
                                       TerminalWhiteWin(0), append(w.pv, res.line))>>]
    ELSE [w EXCEPT !.stack = <<>>, !.best_move = res.move, !.best_value = res.value,
                   !.pv = res.line, !.pc = "after_search"]

\* the record of a depth whose root call returned with the search active
\* throughout
ran_to_end(h, w, res, active) ==
    IF res.done /\ ~res.panicked /\ w.stage = "main" /\ w.pc = "expand" /\ active
    THEN [h EXCEPT !.results = Append(@, [depth |-> w.max_depth, move |-> res.move,
                                          line |-> res.line, value |-> res.value])]
    ELSE h

Expanded(res) ==
    /\ worker' = expanded(worker, res)
    /\ hist' = Tick(ran_to_end(hist, worker, res, cell.search_active))

\* minimax between two entries, and the code of start_search and extend_pv
\* around the return of a root call
Expand ==
    /\ worker.pc \in {"expand", "cancelled"}
    /\ \E res \in {IF worker.pc = "expand" THEN Enter(worker.variant, worker.stack)
                    ELSE Cancelled(worker.variant, worker.stack)} :
          Expanded(res)
    /\ UNCHANGED <<board, status, last, va, vb, vc, vres, agent, cell, lock>>

\* start_search, line 104 / 230: the flag read after the root call
CheckAfterSearch ==
    /\ worker.pc = "after_search"
    /\ lock = "worker"
    /\ lock' = lock_after_condition
    /\ worker' = [worker EXCEPT !.pc =
                     IF ~cell.search_active THEN "exited"
                     ELSE IF worker.best_value.kind \in {"TerminalWhiteWin", "TerminalBlackWin"}
                     THEN "final" ELSE "publish"]
    /\ hist' = Tick(hist)
    /\ UNCHANGED <<board, status, last, va, vb, vc, vres, agent, cell>>

\* a loop that repeats the depth
next_depth_same(max_depth) == max_depth

\* the next value of max_depth
next_depth(max_depth) == max_depth + 1

\* a write that stores the placeholder of minimax_search
published_placeholder(variant, c, w) ==
    IF variant = "pvs" THEN [c EXCEPT !.principal_variation = <<Placeholder>>]
    ELSE [c EXCEPT !.current_best_move = Placeholder]

\* the SearchState after the worker's write of its decision
published(variant, c, w) ==
    IF variant = "pvs" THEN [c EXCEPT !.principal_variation = w.pv]
    ELSE [c EXCEPT !.current_best_move = w.best_move]

\* the write of one record of the worker's decisions
Written(h, w) ==
    [h EXCEPT !.writes = Append(@, [depth |-> w.max_depth, move |-> w.best_move,
                                    line |-> w.pv, value |-> w.best_value])]

\* start_search, line 127 / 271 / 222: the decision of a depth is stored and
\* the pass ends
Publish ==
    /\ worker.pc = "publish"
    /\ lock = "worker"
    /\ lock' = "none"
    /\ cell' = published(worker.variant, cell, worker)
    /\ worker' = [worker EXCEPT
                     !.max_depth = next_depth(@),
                     !.iters = @ + 1,
                     !.pc = IF worker.variant = "minimax2"
                               /\ worker.best_value.kind = "TerminalBlackWin"
                            THEN "deactivate" ELSE "iterate"]
    /\ hist' = Tick(Written(hist, worker))
    /\ UNCHANGED <<board, status, last, va, vb, vc, vres, agent>>

\* a block that ends the search and leaves the decision as it was
final_state_flag_only(variant, c, w) == [c EXCEPT !.search_active = FALSE]

\* the block of lines 109-113 / 247-251 / 201-205 (and of the proven loss,
\* 119-123 / 263-267): decision and flag under one lock
final_state(variant, c, w) == [published(variant, c, w) EXCEPT !.search_active = FALSE]

\* start_search: a proven win or loss is stored, the search ended, the
\* thread returns
Final ==
    /\ worker.pc = "final"
    /\ lock = "worker"
    /\ lock' = "none"
    /\ cell' = final_state(worker.variant, cell, worker)
    /\ worker' = [worker EXCEPT !.pc = "exited"]
    /\ hist' = Tick([Written(hist, worker) EXCEPT
                        !.won = worker.best_value.kind = "TerminalWhiteWin"])
    /\ UNCHANGED <<board, status, last, va, vb, vc, vres, agent>>

\* minimax2 start_search, line 154: the flag read before each root move
CheckLoop ==
    /\ worker.pc = "loop_check"
    /\ lock = "worker"
    /\ lock' = lock_after_condition
    /\ worker' = [worker EXCEPT !.pc = IF cell.search_active THEN "search_move" ELSE "exited"]
    /\ hist' = Tick(hist)
    /\ UNCHANGED <<board, status, last, va, vb, vc, vres, agent, cell>>

\* minimax2 start_search, lines 189-219: the root move replaces the best one
\* or not; a win ends the search, the last move ends the depth
Searched(current_move, value, replace, last_move) ==
    /\ worker' = [worker EXCEPT
                     !.best_value = IF replace THEN value ELSE @,
                     !.best_move = IF replace THEN current_move ELSE @,
                     !.idx = IF replace /\ value.kind = "TerminalWhiteWin" THEN @ ELSE @ + 1,
                     !.pc = IF replace /\ value.kind = "TerminalWhiteWin" THEN "final"
                            ELSE IF last_move THEN "publish" ELSE "loop_check"]
    /\ hist' = Tick(IF last_move /\ ~(replace /\ value.kind = "TerminalWhiteWin")
                       /\ cell.search_active
                    THEN [hist EXCEPT !.results =
                             Append(@, [depth |-> worker.max_depth,
                                        move |-> IF replace THEN current_move
                                                 ELSE worker.best_move,
                                        line |-> <<>>,
                                        value |-> IF replace THEN value
                                                  ELSE worker.best_value])]
                    ELSE hist)

\* line 189: better, or equal and the coin says so
Compared(current_move, value, coin, last_move) ==
    Searched(current_move, value,
             cmp(value, worker.best_value) = "Greater" \/ (value = worker.best_value /\ coin),
             last_move)

\* minimax2 start_search, lines 166-219: one root move is searched and
\* compared; on equal values a coin is flipped
SearchMove ==
    /\ worker.pc = "search_move"
    /\ \E coin \in BOOLEAN,
             value \in {root_value(apply_move(worker.board,
                                              legal_move_list(worker.board, "White")[worker.idx]),
                                   worker.max_depth)} :
          Compared(legal_move_list(worker.board, "White")[worker.idx], value, coin,
                   worker.idx = Len(legal_move_list(worker.board, "White")))
    /\ UNCHANGED <<board, status, last, va, vb, vc, vres, agent, cell, lock>>

\* minimax2 start_search, line 238: after a proven loss the search is ended
Deactivate ==
    /\ worker.pc = "deactivate"
    /\ lock = "worker"
    /\ lock' = "none"
    /\ cell' = [cell EXCEPT !.search_active = FALSE]
    /\ worker' = [worker EXCEPT !.pc = "exited"]
    /\ hist' = Tick(hist)
    /\ UNCHANGED <<board, status, last, va, vb, vc, vres, agent>>

\* the worker thread
Worker ==
    \/ WorkerLock
    \/ Iterate
    \/ CheckEntry
    \/ Expand
    \/ CheckAfterSearch
    \/ Publish
    \/ Final
    \/ CheckLoop
    \/ SearchMove
    \/ Deactivate

NextSearch ==
    \/ Go
    \/ UpdateBoard
    \/ Stop
    \/ GetCurrentBestMove
    \/ ReturnBestMove
    \/ Worker

SpecSearch == InitSearch /\ [][NextSearch]_vars

\* the scheduler runs the worker thread whenever it can take a step
SpecSearchFair == InitSearch /\ [][NextSearch]_vars /\ WF_vars(Worker)

(***************************************************************************)
(* The searches as functions of a board and a depth.  With the flag of    *)
(* the SearchState left true a worker runs its passes max_depth = 0, 1,    *)
(* ... and ends on a proven result; here it is run up to the pass of       *)
(* depth max_depth and reports the last pass it completed.                 *)
(***************************************************************************)
\* deepest pass a worker is run to
MaxDepth == 3
\* largest number of seeds on a board the searches are compared on
MaxDepthSeeds == 6

\* the boards the searches are compared on: no seed in a store yet, both
\* sides able to move
DepthBoards ==
    {b \in UNION {{from_parts(h, SubSeq(q, 1, h), SubSeq(q, h + 1, 2 * h), 0, 0, FALSE) :
                      q \in SeqsUpTo(2 * h, MaxDepthSeeds)} : h \in 1..MaxH} :
        has_legal_move(b)}

\* what a worker reported: the depth of its last pass, the move it published
\* and the value it held for that move
NoOutcome == [done |-> FALSE, depth |-> 0, move |-> Placeholder, value |-> NonTerminal(0)]

Outcome(depth, move_, value) ==
    [done |-> TRUE, depth |-> depth, move |-> move_, value |-> value]

\* minimax_move_ordering, lines 64-74 and 147-164: the children of a board in
\* the order of legal_moves, each flipped when the turn passes
child_states(b) ==
    [k \in 1..Len(legal_move_list(b, "White")) |->
        CHOOSE res \in
            {[move |-> legal_move_list(b, "White")[k], their_next_move |-> ~r.ret,
              board |-> IF ~r.ret THEN flip_board(r.board) ELSE r.board]
             : r \in {apply_move(b, legal_move_list(b, "White")[k])}} : TRUE]

\* the stable sort_by of lines 76-80, and that of line 234, whose closure
\* binds the second field of the tuple, their_next_move, and reverses the
\* order of bool: the entries with their_next_move first, each group in the
\* order it had
sort_by_their_next_move(entries) ==
    SelectSeq(entries, LAMBDA c : c.their_next_move)
        \o SelectSeq(entries, LAMBDA c : ~c.their_next_move)

RECURSIVE minimax_move_ordering(_, _, _, _, _)
RECURSIVE move_ordering_loop(_, _, _, _, _, _)
\* lines 89-109: the value of one child
move_ordering_value(c, remaining_depth, alpha, beta, ALPHA_BETA_PRUNE) ==
    IF c.their_next_move
    THEN neg(increase_plies(minimax_move_ordering(c.board, remaining_depth - 1,
                                                  neg(beta), neg(alpha), ALPHA_BETA_PRUNE)))
    ELSE increase_plies(minimax_move_ordering(c.board, remaining_depth, alpha, beta,
                                              ALPHA_BETA_PRUNE))

\* lines 82-134: for (next_board, their_next_move) in child_states
move_ordering_loop(children, remaining_depth, alpha, beta, best_value, ALPHA_BETA_PRUNE) ==
    IF children = <<>> THEN best_value
    ELSE CHOOSE res \in
        {IF ALPHA_BETA_PRUNE /\ cmp(value, beta) # "Less"
         THEN (IF cmp(value, best_value) = "Greater" THEN value ELSE best_value)
         ELSE move_ordering_loop(
                  Tail(children), remaining_depth,
                  IF ALPHA_BETA_PRUNE /\ cmp(value, alpha) = "Greater" THEN value ELSE alpha,
                  beta,
                  IF cmp(value, best_value) = "Greater" THEN value ELSE best_value,
                  ALPHA_BETA_PRUNE)
         : value \in {move_ordering_value(Head(children), remaining_depth, alpha, beta,
                                          ALPHA_BETA_PRUNE)}} : TRUE

\* minimax_move_ordering/search.rs minimax, lines 51-137
minimax_move_ordering(b, remaining_depth, alpha, beta, ALPHA_BETA_PRUNE) ==
    IF remaining_depth = 0 \/ ~has_legal_move(b) THEN VALUATION_FN(b)
    ELSE move_ordering_loop(sort_by_their_next_move(child_states(b)), remaining_depth,
                            alpha, beta, TerminalBlackWin(0), ALPHA_BETA_PRUNE)

\* start_search, lines 185-232: the root moves in their current order get
\* their values of this max_depth; alpha follows when pruning
RECURSIVE moves_boards_vals(_, _, _, _)
moves_boards_vals(ordered, max_depth, alpha, ALPHA_BETA_PRUNE) ==
    IF ordered = <<>> THEN <<>>
    ELSE CHOOSE res \in
        {<<[move |-> Head(ordered).move,
            their_next_move |-> Head(ordered).their_next_move,
            board |-> Head(ordered).board, value |-> value]>>
            \o moves_boards_vals(
                   Tail(ordered), max_depth,
                   IF ALPHA_BETA_PRUNE /\ cmp(value, alpha) # "Less" THEN value ELSE alpha,
                   ALPHA_BETA_PRUNE)
         : value \in
             {IF Head(ordered).their_next_move
              THEN neg(minimax_move_ordering(Head(ordered).board, max_depth,
                                             neg(TerminalWhiteWin(0)), neg(alpha),
                                             ALPHA_BETA_PRUNE))
              ELSE minimax_move_ordering(Head(ordered).board, max_depth, alpha,
                                         TerminalWhiteWin(0), ALPHA_BETA_PRUNE)}} : TRUE

\* start_search, lines 175-274: the passes from max_depth on; the first entry
\* after the sort of line 234 is published, a proven win ends the search
RECURSIVE move_ordering_passes(_, _, _, _)
move_ordering_passes(ordered, max_depth, last_depth, ALPHA_BETA_PRUNE) ==
    CHOOSE res \in
        {IF sorted[1].value.kind = "TerminalWhiteWin" \/ max_depth = last_depth
         THEN Outcome(max_depth, sorted[1].move, sorted[1].value)
         ELSE move_ordering_passes(sorted, max_depth + 1, last_depth, ALPHA_BETA_PRUNE)
         : sorted \in {sort_by_their_next_move(
                           moves_boards_vals(ordered, max_depth, TerminalBlackWin(0),
                                             ALPHA_BETA_PRUNE))}} : TRUE

\* minimax_move_ordering/search.rs start_search, lines 139-275
start_search_move_ordering(b, last_depth, ALPHA_BETA_PRUNE) ==
    move_ordering_passes(child_states(b), 0, last_depth, ALPHA_BETA_PRUNE)

\* minimax2 start_search, lines 166-219, for one max_depth: every way the
\* coin of line 189 can fall gives a best move and its value
RECURSIVE minimax2_pass(_, _, _, _, _)
minimax2_pass(b, max_depth, moves, best_move_, best_value) ==
    IF moves = <<>> THEN {[move |-> best_move_, value |-> best_value]}
    ELSE UNION
        {UNION {IF ~replace THEN minimax2_pass(b, max_depth, Tail(moves), best_move_, best_value)
                ELSE IF value.kind = "TerminalWhiteWin"
                     THEN {[move |-> Head(moves), value |-> value]}
                     ELSE minimax2_pass(b, max_depth, Tail(moves), Head(moves), value)
                : replace \in {cmp(value, best_value) = "Greater"
                                 \/ (value = best_value /\ coin) : coin \in BOOLEAN}}
         : value \in {root_value(apply_move(b, Head(moves)), max_depth)}}

\* minimax2 start_search, lines 143-242: the passes from max_depth on; a
\* proven win or loss ends the search
RECURSIVE minimax2_passes(_, _, _)
minimax2_passes(b, max_depth, last_depth) ==
    UNION {IF o.value.kind \in {"TerminalWhiteWin", "TerminalBlackWin"} \/ max_depth = last_depth
           THEN {Outcome(max_depth, o.move, o.value)}
           ELSE minimax2_passes(b, max_depth + 1, last_depth)
           : o \in minimax2_pass(b, max_depth, legal_move_list(b, "White"),
                                 legal_move_list(b, "White")[1], TerminalBlackWin(0))}

\* the root call of minimax of tournament or pvs with the full window, the
\* flag of the SearchState staying true: the calls are entered one after
\* the other until the root call returns
RECURSIVE run_minimax(_, _)
run_minimax(variant, at) ==
    IF at.done THEN at ELSE run_minimax(variant, Enter(variant, at.stack))

full_window_minimax(variant, b, max_depth) ==
    run_minimax(variant,
                AtCall(<<NewFrame(b, max_depth, TerminalBlackWin(0), TerminalWhiteWin(0),
                                  <<>>)>>))

RECURSIVE maximise(_, _, _, _)
RECURSIVE minimise(_, _, _, _)
RECURSIVE maximise_loop(_, _, _, _, _, _, _)
RECURSIVE minimise_loop(_, _, _, _, _, _, _)
\* minimax_reference, lines 115-134: one move of White, r being what
\* apply_move gave
maximise_step(b, remaining_depth, moves, alpha, beta, best, r) ==
    CHOOSE res \in
        {IF cmp(now.value, beta) # "Less" THEN now
         ELSE maximise_loop(b, remaining_depth, Tail(moves),
                            IF cmp(now.value, alpha) = "Greater" THEN now.value ELSE alpha,
                            beta, now.move, now.value)
         : now \in
             {IF cmp(value, best.value) = "Greater"
              THEN [move |-> Head(moves), value |-> value] ELSE best
              : value \in
                  {increase_plies(
                       IF ~r.ret
                       THEN minimise(r.board, remaining_depth - 1, alpha, beta).value
                       ELSE maximise(r.board, remaining_depth, alpha, beta).value)}}} : TRUE

\* lines 115-140: for move_ in board.legal_moves(White)
maximise_loop(b, remaining_depth, moves, alpha, beta, best_move_, best_value) ==
    IF moves = <<>> THEN [move |-> best_move_, value |-> best_value]
    ELSE maximise_step(b, remaining_depth, moves, alpha, beta,
                       [move |-> best_move_, value |-> best_value],
                       apply_move(b, Head(moves)))

\* MinimaxWorker::maximise of minimax_reference
maximise(b, remaining_depth, alpha, beta) ==
    IF remaining_depth = 0 \/ ~has_legal_move(b)
    THEN [move |-> MoveNew(127, "White"), value |-> VALUATION_FN(b)]
    ELSE maximise_loop(b, remaining_depth, legal_move_list(b, "White"), alpha, beta,
                       MoveNew(127, "White"), TerminalBlackWin(0))

\* lines 70-89: one move of Black
minimise_step(b, remaining_depth, moves, alpha, beta, best, r) ==
    CHOOSE res \in
        {IF cmp(now.value, alpha) # "Greater" THEN now
         ELSE minimise_loop(b, remaining_depth, Tail(moves), alpha,
                            IF cmp(now.value, beta) = "Less" THEN now.value ELSE beta,
                            now.move, now.value)
         : now \in
             {IF cmp(value, best.value) = "Less"
              THEN [move |-> Head(moves), value |-> value] ELSE best
              : value \in
                  {increase_plies(
                       IF ~r.ret
                       THEN maximise(r.board, remaining_depth - 1, alpha, beta).value
                       ELSE minimise(r.board, remaining_depth, alpha, beta).value)}}} : TRUE

\* lines 70-95: for move_ in board.legal_moves(Black)
minimise_loop(b, remaining_depth, moves, alpha, beta, best_move_, best_value) ==
    IF moves = <<>> THEN [move |-> best_move_, value |-> best_value]
    ELSE minimise_step(b, remaining_depth, moves, alpha, beta,
                       [move |-> best_move_, value |-> best_value],
                       apply_move(b, Head(moves)))

\* MinimaxWorker::minimise of minimax_reference
minimise(b, remaining_depth, alpha, beta) ==
    IF remaining_depth = 0 \/ ~has_legal_move(b)
    THEN [move |-> MoveNew(127, "Black"), value |-> VALUATION_FN(b)]
    ELSE minimise_loop(b, remaining_depth, legal_move_list(b, "Black"), alpha, beta,
                       MoveNew(127, "Black"), TerminalWhiteWin(0))

NoRuns(max_depth) ==
    [op |-> "none", max_depth |-> max_depth, move_ordering |-> NoOutcome,
     minimax2 |-> NoOutcome, tournament |-> NoOutcome, pvs |-> NoOutcome,
     reference |-> NoOutcome]

InitDepth ==
    /\ board \in DepthBoards
    /\ status = "running"
    /\ last \in {NoRuns(d) : d \in 0..MaxDepth}
    /\ InitValuationIdle
    /\ InitSearchIdle

\* minimax_search::<false> of minimax_move_ordering on the board, left to run
\* to the pass of the depth
RunMoveOrdering ==
    /\ ~last.move_ordering.done
    /\ last' = [last EXCEPT !.op = "move_ordering",
                            !.move_ordering =
                                start_search_move_ordering(board, last.max_depth, FALSE)]
    /\ UNCHANGED <<board, status, va, vb, vc, vres>>
    /\ UNCHANGED searchVars

\* minimax_search of minimax2 on the board, left to run to the pass of the depth
RunMinimax2 ==
    /\ ~last.minimax2.done
    /\ \E o \in minimax2_passes(board, 0, last.max_depth) :
          last' = [last EXCEPT !.op = "minimax2", !.minimax2 = o]
    /\ UNCHANGED <<board, status, va, vb, vc, vres>>
    /\ UNCHANGED searchVars

\* tournament: minimax(&board, max_depth, alpha, beta) as start_search calls it
TournamentMinimax ==
    /\ ~last.tournament.done
    /\ \E r \in {full_window_minimax("tournament", board, last.max_depth)} :
          last' = [last EXCEPT !.op = "tournament",
                               !.tournament = Outcome(last.max_depth, r.move, r.value)]
    /\ UNCHANGED <<board, status, va, vb, vc, vres>>
    /\ UNCHANGED searchVars

\* pvs: minimax(&board, max_depth, alpha, beta, &mut line) on an empty line
PvsMinimax ==
    /\ ~last.pvs.done
    /\ \E r \in {full_window_minimax("pvs", board, last.max_depth)} :
          last' = [last EXCEPT !.op = "pvs",
                               !.pvs = Outcome(last.max_depth, best_move(r.line), r.value)]
    /\ UNCHANGED <<board, status, va, vb, vc, vres>>
    /\ UNCHANGED searchVars

\* minimax_reference: minimax_search with max_depth
ReferenceSearch ==
    /\ ~last.reference.done
    /\ \E r \in {maximise(board, last.max_depth, TerminalBlackWin(0), TerminalWhiteWin(0))} :
          last' = [last EXCEPT !.op = "reference",
                               !.reference = Outcome(last.max_depth, r.move, r.value)]
    /\ UNCHANGED <<board, status, va, vb, vc, vres>>
    /\ UNCHANGED searchVars

NextDepth ==
    \/ RunMoveOrdering
    \/ RunMinimax2
    \/ TournamentMinimax
    \/ PvsMinimax
    \/ ReferenceSearch

SpecDepth == InitDepth /\ [][NextDepth]_vars

(***************************************************************************)
(* Construction and the text records of a Board.  A str is the sequence   *)
(* of its characters.                                                      *)
(***************************************************************************)
Digits == <<"0", "1", "2", "3", "4", "5", "6", "7", "8", "9">>

U8Max == 255

U16Max == 65535

\* the largest h from_parts accepts
MaxHouses == 128

\* Display of an unsigned integer, as write!(s, "{}", n)
RECURSIVE to_decimal(_)
to_decimal(n) ==
    IF n < 10 THEN <<Digits[n + 1]>>
    ELSE to_decimal(n \div 10) \o <<Digits[(n % 10) + 1]>>

\* str::parse of an unsigned integer no larger than max: an optional '+',
\* then one digit or more; -1 stands for Err
RECURSIVE parse_digits(_, _, _)
parse_digits(s, acc, max) ==
    IF s = <<>> THEN acc
    ELSE IF ~\E d \in 1..10 : Digits[d] = Head(s) THEN 0 - 1
    ELSE IF acc * 10 + ((CHOOSE d \in 1..10 : Digits[d] = Head(s)) - 1) > max THEN 0 - 1
    ELSE parse_digits(Tail(s), acc * 10 + ((CHOOSE d \in 1..10 : Digits[d] = Head(s)) - 1),
                      max)

parse(s, max) ==
    IF s # <<>> /\ Head(s) = "+"
    THEN (IF Tail(s) = <<>> THEN 0 - 1 ELSE parse_digits(Tail(s), 0, max))
    ELSE IF s = <<>> THEN 0 - 1 ELSE parse_digits(s, 0, max)

\* str::split(','), cur being the piece begun
RECURSIVE split(_, _)
split(s, cur) ==
    IF s = <<>> THEN <<cur>>
    ELSE IF Head(s) = "," THEN <<cur>> \o split(Tail(s), <<>>)
    ELSE split(Tail(s), Append(cur, Head(s)))

\* mutant of from_parts_asserts: any number of houses is accepted
from_parts_asserts_any_h(h, our_houses, their_houses) ==
    Len(our_houses) = h /\ Len(their_houses) = h

\* the assertions of Board::from_parts, lines 111-114
from_parts_asserts(h, our_houses, their_houses) ==
    h <= MaxHouses /\ Len(our_houses) = h /\ Len(their_houses) = h

\* what a constructor gives: the board, or a panic
Built(b) == [board |-> b, panicked |-> FALSE]

NotBuilt == [board |-> from_parts(0, <<>>, <<>>, 0, 0, FALSE), panicked |-> TRUE]

\* Board::new with the assertions of from_parts
try_new(h, s) ==
    IF from_parts_asserts(h, [i \in 1..h |-> s], [i \in 1..h |-> s]) THEN Built(new(h, s))
    ELSE NotBuilt

\* Board::from_kpg, lines 149-167, on the pieces between the commas
from_nums(nums) ==
    LET h == parse(nums[1], U8Max)
    IN  IF Len(nums) < 3 \/ h < 0 \/ parse(nums[2], U16Max) < 0 \/ parse(nums[3], U16Max) < 0
        THEN NotBuilt
        ELSE IF Len(nums) < 3 + 2 * h
                  \/ \E i \in 4..(3 + 2 * h) : parse(nums[i], U16Max) < 0
        THEN NotBuilt
        ELSE IF Len(nums) # 3 + 2 * h
                  \/ ~from_parts_asserts(h, SubSeq(nums, 4, 3 + h),
                                         SubSeq(nums, 4 + h, 3 + 2 * h))
        THEN NotBuilt
        ELSE Built(from_parts(h,
                              [i \in 1..h |-> parse(nums[3 + i], U16Max)],
                              [i \in 1..h |-> parse(nums[3 + h + i], U16Max)],
                              parse(nums[2], U16Max), parse(nums[3], U16Max), FALSE))

\* Board::from_kpg: whitespace is dropped, '<' and '>' are stripped, the rest
\* is split at the commas
from_kpg(kpg) ==
    LET s == SelectSeq(kpg, LAMBDA c : c # " ")
    IN  IF s = <<>> \/ Head(s) # "<" THEN NotBuilt
        ELSE IF Tail(s) = <<>> \/ s[Len(s)] # ">" THEN NotBuilt
        ELSE from_nums(split(SubSeq(s, 2, Len(s) - 1), <<>>))

\* mutant of write_seeds: no space after the comma
RECURSIVE write_seeds_no_space(_)
write_seeds_no_space(houses) ==
    IF houses = <<>> THEN <<>>
    ELSE IF Len(houses) = 1 THEN <<",">> \o to_decimal(houses[1])
    ELSE LET mid == Len(houses) \div 2
         IN  write_seeds_no_space(SubSeq(houses, 1, mid))
                 \o write_seeds_no_space(SubSeq(houses, mid + 1, Len(houses)))

\* the loops of to_kgp: write!(s, ", {}", seed) for every house, in the order
\* of the houses; the row is written half by half, so that a row of 128
\* houses takes 7 nested calls
RECURSIVE write_seeds(_)
write_seeds(houses) ==
    IF houses = <<>> THEN <<>>
    ELSE IF Len(houses) = 1 THEN <<",", " ">> \o to_decimal(houses[1])
    ELSE LET mid == Len(houses) \div 2
         IN  write_seeds(SubSeq(houses, 1, mid))
                 \o write_seeds(SubSeq(houses, mid + 1, Len(houses)))

\* mutant of to_kgp: the board is written as the accessors give it
to_kgp_as_seen(b) ==
    <<"<">> \o to_decimal(b.h) \o <<",", " ">> \o to_decimal(b.our_store)
        \o <<",", " ">> \o to_decimal(b.their_store)
        \o write_seeds(b.our_houses) \o write_seeds(b.their_houses) \o <<">">>

\* Board::to_kgp: a flipped board is written with its sides exchanged
to_kgp(b) ==
    IF ~b.flipped
    THEN <<"<">> \o to_decimal(b.h) \o <<",", " ">> \o to_decimal(b.our_store)
             \o <<",", " ">> \o to_decimal(b.their_store)
             \o write_seeds(b.our_houses) \o write_seeds(b.their_houses) \o <<">">>
    ELSE <<"<">> \o to_decimal(b.h) \o <<",", " ">> \o to_decimal(b.their_store)
             \o <<",", " ">> \o to_decimal(b.our_store)
             \o write_seeds(b.their_houses) \o write_seeds(b.our_houses) \o <<">">>

(***************************************************************************)
(* The records handed to from_kpg.  A numeral is written out digit by      *)
(* digit next to the number it denotes.                                    *)
(***************************************************************************)
\* largest h of a record
MaxTextH == 2

Numeral(chars, value) == [chars |-> chars, value |-> value]

\* numerals in canonical form: no sign, no leading zero
HouseNumerals ==
    {Numeral(<<"0">>, 0), Numeral(<<"7">>, 7), Numeral(<<"1", "2">>, 12)}

StoreNumerals ==
    {Numeral(<<"0">>, 0), Numeral(<<"3">>, 3), Numeral(<<"6", "5", "5", "3", "5">>, 65535)}

HNumeral(h) == Numeral(<<Digits[h + 1]>>, h)

\* numerals from_kpg reads as 7 although they are not canonical, and numerals
\* that are no u16
OddNumerals ==
    {Numeral(<<"0", "7">>, 7), Numeral(<<"+", "7">>, 7),
     Numeral(<<"6", "5", "5", "3", "6">>, 65536), Numeral(<<"7", "x">>, 0 - 1),
     Numeral(<<>>, 0 - 1)}

\* the pieces joined by sep and put between '<' and '>'
RECURSIVE join(_, _)
join(numerals, sep) ==
    IF Len(numerals) = 1 THEN Head(numerals).chars
    ELSE Head(numerals).chars \o sep \o join(Tail(numerals), sep)

Record(numerals, sep) ==
    [chars |-> <<"<">> \o join(numerals, sep) \o <<">">>,
     nums |-> [i \in 1..Len(numerals) |-> numerals[i].value],
     canonical |-> sep = <<",", " ">>]

RECURSIVE NumeralSeqs(_, _)
NumeralSeqs(len, numerals) ==
    IF len = 0 THEN {<<>>}
    ELSE {<<n>> \o t : n \in numerals, t \in NumeralSeqs(len - 1, numerals)}

\* the well-formed records '<h, a, b, x0, ..., y0, ...>' in canonical form
CanonicalRecords ==
    UNION {{Record(<<HNumeral(h)>> \o stores \o houses, <<",", " ">>) :
                stores \in NumeralSeqs(2, StoreNumerals),
                houses \in NumeralSeqs(2 * h, HouseNumerals)} : h \in 0..MaxTextH}

\* records from_kpg accepts or rejects that are not in canonical form: other
\* separators, other numerals, a wrong number of houses, a missing bracket
OtherRecords ==
    {[Record(<<HNumeral(1), Numeral(<<"3">>, 3), Numeral(<<"0">>, 0), n,
               Numeral(<<"7">>, 7)>>, sep) EXCEPT !.canonical = FALSE] :
         n \in OddNumerals \cup HouseNumerals,
         sep \in {<<",">>, <<",", " ", " ">>, <<" ", ",">>, <<";", " ">>}}
      \cup {[Record(<<HNumeral(1), Numeral(<<"3">>, 3), Numeral(<<"0">>, 0), n,
                     Numeral(<<"7">>, 7)>>, <<",", " ">>) EXCEPT !.canonical = FALSE] :
               n \in OddNumerals}
      \cup {[Record(<<HNumeral(h)>> \o houses, <<",", " ">>) EXCEPT !.canonical = FALSE] :
               h \in {1, 2}, houses \in NumeralSeqs(4, {Numeral(<<"7">>, 7)})}
      \cup {[r EXCEPT !.chars = SubSeq(@, 1, Len(@) - 1), !.canonical = FALSE] :
               r \in {Record(<<HNumeral(0), Numeral(<<"3">>, 3), Numeral(<<"0">>, 0)>>,
                             <<",", " ">>)}}

Records == CanonicalRecords \cup OtherRecords

\* the arguments of Board::new: h is a u8, s a u16
NewHouses == {0, 1, 2, 6, 127, 128, 129, 255}

NewSeeds == {0, 1, 4, 65535}

\* no record has been read or written: kpg is the record given to from_kpg
\* with its numbers, read whether the board is the one read from it, kgp what
\* to_kgp wrote, h and s the arguments of new
NoText(op) == [op |-> op, kpg |-> <<>>, nums |-> <<>>, canonical |-> FALSE, read |-> FALSE,
               kgp |-> <<>>, h |-> 0, s |-> 0]

InitText ==
    /\ board = new(1, 1)
    /\ status = "running"
    /\ last \in {[NoText("none") EXCEPT !.kpg = r.chars, !.nums = r.nums,
                                        !.canonical = r.canonical] : r \in Records}
    /\ InitValuationIdle
    /\ InitSearchIdle

\* board = Board::new(h, s)
New(h, s) ==
    /\ status = "running"
    /\ board' = try_new(h, s).board
    /\ status' = IF try_new(h, s).panicked THEN "panicked" ELSE "running"
    /\ last' = [NoText("new") EXCEPT !.h = h, !.s = s]
    /\ UNCHANGED <<va, vb, vc, vres>>
    /\ UNCHANGED searchVars

\* board = Board::from_kpg(kpg), kpg being the record this run was given
FromKpg ==
    /\ status = "running"
    /\ last.op = "none"
    /\ LET r == from_kpg(last.kpg)
       IN  /\ board' = r.board
           /\ status' = IF r.panicked THEN "panicked" ELSE "running"
    /\ last' = [last EXCEPT !.op = "from_kpg", !.read = TRUE]
    /\ UNCHANGED <<va, vb, vc, vres>>
    /\ UNCHANGED searchVars

\* board.to_kgp(); the record the board was read from is kept next to it
ToKgp ==
    /\ status = "running"
    /\ last' = [last EXCEPT !.op = "to_kgp", !.kgp = to_kgp(board)]
    /\ UNCHANGED <<board, status, va, vb, vc, vres>>
    /\ UNCHANGED searchVars

\* board.flip_board()
FlipText ==
    /\ status = "running"
    /\ board' = flip_board(board)
    /\ last' = NoText("flip_board")
    /\ UNCHANGED <<status, va, vb, vc, vres>>
    /\ UNCHANGED searchVars

NextText ==
    \/ \E h \in NewHouses, s \in NewSeeds : New(h, s)
    \/ FromKpg
    \/ ToKgp
    \/ FlipText

SpecText == InitText /\ [][NextText]_vars

(***************************************************************************)
(* The board under a caller that asks for the legal moves and plays.       *)
(***************************************************************************)
\* board.legal_moves(player)
LegalMoves(player) ==
    /\ status = "running"
    /\ last' = [op |-> "legal_moves", player |-> player,
                moves |-> legal_move_list(board, player)]
    /\ UNCHANGED <<board, status, va, vb, vc, vres>>
    /\ UNCHANGED searchVars

\* board.is_legal_move(move_): the slice of h houses is indexed with the
\* house of the move, which aborts beyond the board
IsLegalMove(move_) ==
    /\ status = "running"
    /\ IF MoveHouse(move_) < board.h
       THEN /\ last' = [op |-> "is_legal_move", move |-> move_,
                        ret |-> is_legal_move(board, move_)]
            /\ UNCHANGED status
       ELSE /\ last' = [op |-> "is_legal_move", move |-> move_, ret |-> FALSE]
            /\ status' = "panicked"
    /\ UNCHANGED <<board, va, vb, vc, vres>>
    /\ UNCHANGED searchVars

NextMoves ==
    \/ \E player \in Player : LegalMoves(player)
    \/ \E move_ \in Moves : IsLegalMove(move_)
    \/ \E move_ \in Moves : ApplyMove(move_)

SpecMoves == Init /\ [][NextMoves]_vars

(***************************************************************************)
(* A Line of pvs/search.rs under a caller that overwrites and appends.     *)
(***************************************************************************)
\* what overwrite or append left: the line, whether the call panicked, and
\* how many slots of the array moves, counted from its start, the call wrote
\* into at most
LineResult(line, panicked, reach) == [line |-> line, panicked |-> panicked, reach |-> reach]

\* Line::append with its assertion: other.len moves are copied to
\* moves[self.len..]
line_append(self, other) ==
    IF append_fits(self, other)
    THEN LineResult(append(self, other), FALSE, Len(self) + Len(other))
    ELSE LineResult(self, TRUE, 0)

\* Line::overwrite with its assertion: moves[0] and len are written before
\* append is called
line_overwrite(self, head, tail) ==
    IF ~(Len(tail) < LINE_MAX_SIZE) THEN LineResult(self, TRUE, 0)
    ELSE IF line_append(<<head>>, tail).panicked THEN LineResult(<<head>>, TRUE, 1)
    ELSE LineResult(overwrite(head, tail), FALSE, 1 + Len(tail))

\* the lengths of the lines a caller holds at the start
LineLens == {0, 1, 2, 49, 50, 51, 98, 99}

\* the moves of a line alternate between two houses
LineOf(len, k) == [i \in 1..len |-> MoveNew((i + k) % 2, "White")]

Lines == {LineOf(len, k) : len \in LineLens, k \in 0..1}

InitLine ==
    /\ board = new(1, 1)
    /\ status = "running"
    /\ last \in {[op |-> "none", line |-> l, other |-> o, pre |-> l, head |-> NoMove,
                  reach |-> 0] : l \in Lines, o \in Lines}
    /\ InitValuationIdle
    /\ InitSearchIdle

\* line.overwrite(head, &other)
Overwrite(head) ==
    /\ status = "running"
    /\ LET r == line_overwrite(last.line, head, last.other)
       IN  /\ last' = [last EXCEPT !.op = "overwrite", !.line = r.line, !.pre = last.line,
                                   !.head = head, !.reach = r.reach]
           /\ status' = IF r.panicked THEN "panicked" ELSE "running"
    /\ UNCHANGED <<board, va, vb, vc, vres>>
    /\ UNCHANGED searchVars

\* line.append(&other)
LineAppend ==
    /\ status = "running"
    /\ LET r == line_append(last.line, last.other)
       IN  /\ last' = [last EXCEPT !.op = "append", !.line = r.line, !.pre = last.line,
                                   !.head = NoMove, !.reach = r.reach]
           /\ status' = IF r.panicked THEN "panicked" ELSE "running"
    /\ UNCHANGED <<board, va, vb, vc, vres>>
    /\ UNCHANGED searchVars

NextLine ==
    \/ \E head \in {MoveNew(i, "White") : i \in 0..1} : Overwrite(head)
    \/ LineAppend

SpecLine == InitLine /\ [][NextLine]_vars

(***************************************************************************)
(* The root call of minimax of tournament and pvs, call by call, with the  *)
(* flag of the SearchState staying true.                                   *)
(***************************************************************************)
InitCalls ==
    /\ board \in DepthBoards
    /\ status = "running"
    /\ last = [op |-> "none", move |-> 0, pre |-> board, call |-> NoCall(board), val |-> NoEval]
    /\ InitValuationIdle
    /\ agent = [AgentNew EXCEPT !.state = "Go", !.search_state = TRUE]
    /\ cell = new_shared_minimax_search_state(TRUE, Head(legal_move_list(board, "White")))
    /\ lock = "none"
    /\ worker \in {[NoWorker(variant, board) EXCEPT
                       !.pc = "search", !.max_depth = max_depth,
                       !.stack = <<NewFrame(board, max_depth, TerminalBlackWin(0),
                                            TerminalWhiteWin(0), <<>>)>>] :
                      variant \in {"tournament", "pvs"}, max_depth \in 1..MaxDepth}
    /\ hist = [NoHist(board) EXCEPT !.fallback = Head(legal_move_list(board, "White"))]

\* the running call of minimax is entered and runs up to the next call, or
\* the root call returns
MinimaxCall ==
    /\ worker.pc = "search"
    /\ \E at \in {Enter(worker.variant, worker.stack)} :
          worker' = [worker EXCEPT
                        !.stack = at.stack,
                        !.pc = IF at.panicked THEN "panicked"
                               ELSE IF at.done THEN "returned" ELSE "search",
                        !.best_move = IF at.done THEN at.move ELSE @,
                        !.best_value = IF at.done THEN at.value ELSE @,
                        !.pv = IF at.done THEN at.line ELSE @]
    /\ UNCHANGED <<board, status, last, va, vb, vc, vres, agent, cell, lock, hist>>

NextCalls == MinimaxCall

SpecCalls == InitCalls /\ [][NextCalls]_vars

\* the thread of the worker is scheduled as long as it has a call to run
SpecCallsFair == InitCalls /\ [][NextCalls]_vars /\ WF_vars(MinimaxCall)

(***************************************************************************)
(* The searches on endgames: the opponent is down to the last seed.        *)
(***************************************************************************)
\* largest number of seeds on the boards of an endgame
MaxEndgameSeeds == 5

\* boards of MaxH houses a side, no seed in a store, one seed on their side
EndgameBoards ==
    {b \in {from_parts(MaxH, SubSeq(q, 1, MaxH), SubSeq(q, MaxH + 1, 2 * MaxH), 0, 0, FALSE) :
                q \in SeqsUpTo(2 * MaxH, MaxEndgameSeeds)} :
        SumHouses(b.their_houses) = 1}

InitEndgame ==
    /\ board \in EndgameBoards
    /\ status = "running"
    /\ last = [op |-> "none", move |-> 0, pre |-> board, call |-> NoCall(board), val |-> NoEval]
    /\ InitValuationIdle
    /\ agent = AgentNew
    /\ cell = NoCell
    /\ lock = "none"
    /\ worker \in {NoWorker(variant, board) : variant \in Variants}
    /\ hist = NoHist(board)

SpecEndgame == InitEndgame /\ [][NextSearch]_vars

(***************************************************************************)
(* increase_plies on drawn valuations.                                     *)
(***************************************************************************)
\* a.increase_plies(), (-a).increase_plies() and -(a.increase_plies())
IncreasePlies ==
    /\ vres' = [op |-> "increase_plies", inc |-> increase_plies(va),
                inc_neg |-> increase_plies(neg(va)), neg_inc |-> neg(increase_plies(va))]
    /\ UNCHANGED <<board, status, last, va, vb, vc>>
    /\ UNCHANGED searchVars

NextPlies == IncreasePlies

SpecPlies == InitVal /\ [][NextPlies]_vars

(***************************************************************************)
(* The valuation functions on a board and on its flip_board image.        *)
(***************************************************************************)
\* store_diff_valuation(&board) and seed_diff_valuation(&board), then
\* board.flip_board() and the two again
EvaluateFlipped ==
    /\ status = "running"
    /\ board' = flip_board(board)
    /\ last' = [op |-> "evaluate_flipped", move |-> 0, pre |-> board, call |-> NoCall(board),
                 val |-> [store_diff |-> store_diff_valuation(board),
                          seed_diff |-> seed_diff_valuation(board)],
                 flipped_val |-> [store_diff |-> store_diff_valuation(flip_board(board)),
                                  seed_diff |-> seed_diff_valuation(flip_board(board))]]
    /\ UNCHANGED <<status, va, vb, vc, vres>>
    /\ UNCHANGED searchVars

NextEval ==
    \/ \E move_ \in Moves : ApplyMove(move_)
    \/ EvaluateFlipped

SpecEval == Init /\ [][NextEval]_vars

(***************************************************************************)
(* A game from Board::new: the callers apply legal moves only and flip the *)
(* board as the searches do.                                               *)
(***************************************************************************)
\* largest number of houses a side and of seeds a house of Board::new
MaxGameH == 3
MaxNewSeeds == 2

InitGame ==
    /\ board \in {new(h, s) : h \in 1..MaxGameH, s \in 1..MaxNewSeeds}
    /\ status = "running"
    /\ last = [op |-> "none", move |-> 0, pre |-> board, call |-> NoCall(board), val |-> NoEval]
    /\ InitValuationIdle
    /\ InitSearchIdle

\* board.apply_move(move_) for a move out of board.legal_moves(player)
Play(move_) ==
    /\ move_ \in legal_moves(board, MovePlayer(move_))
    /\ ApplyMove(move_)

GameMoves == {MoveNew(i, p) : i \in 0..(MaxGameH - 1), p \in Player}

NextGame ==
    \/ \E move_ \in GameMoves : Play(move_)
    \/ FlipBoard

SpecGame == InitGame /\ [][NextGame]_vars

(***************************************************************************)
(* The passes of start_search of pvs, the flag of the SearchState staying  *)
(* true: extend_pv on the line of the pass before, then the root call.     *)
(***************************************************************************)
\* the root call minimax(&board, depth, alpha, beta, &mut line) run to its return
pvs_root_call(b, depth, line) ==
    run_minimax("pvs", AtCall(<<NewFrame(b, depth, TerminalBlackWin(0), TerminalWhiteWin(0),
                                         line)>>))

\* the worker before its first pass: pv = Line::new()
NoPass ==
    [op |-> "none", pc |-> "extend", max_depth |-> 1, pv |-> <<>>, handed |-> <<>>,
     value |-> TerminalBlackWin(0), published |-> <<>>]

InitPv ==
    /\ board \in DepthBoards
    /\ status = "running"
    /\ last = NoPass
    /\ InitValuationIdle
    /\ InitSearchIdle

\* start_search, lines 219-226, and extend_pv: the line is replayed on a
\* clone of the board, searched one level further and the result appended
ExtendPv ==
    /\ status = "running"
    /\ last.pc = "extend"
    /\ last.max_depth <= MaxDepth
    /\ \E rep \in {replay(board, last.pv)} :
          IF rep.panicked
          THEN /\ status' = "panicked"
               /\ last' = [last EXCEPT !.op = "extend_pv", !.handed = last.pv]
          ELSE \E ext \in {pvs_root_call(rep.board, 1, <<>>)} :
                  /\ status' = IF ext.panicked \/ ~append_fits(last.pv, ext.line)
                               THEN "panicked" ELSE "running"
                  /\ last' = [last EXCEPT !.op = "extend_pv", !.handed = last.pv,
                                          !.pv = append(last.pv, ext.line),
                                          !.pc = "search"]
    /\ UNCHANGED <<board, va, vb, vc, vres>>
    /\ UNCHANGED searchVars

\* start_search, lines 228-272: the root call on the extended line; the line
\* it leaves is stored, and a proven win or loss ends the search
RootSearch ==
    /\ status = "running"
    /\ last.pc = "search"
    /\ \E r \in {pvs_root_call(board, last.max_depth, last.pv)} :
          /\ status' = IF r.panicked THEN "panicked" ELSE "running"
          /\ last' = [last EXCEPT
                         !.op = "root_search", !.pv = r.line, !.value = r.value,
                         !.published = IF r.panicked THEN @ ELSE r.line,
                         !.max_depth = @ + 1,
                         !.pc = IF r.value.kind \in {"TerminalWhiteWin", "TerminalBlackWin"}
                                THEN "exited" ELSE "extend"]
    /\ UNCHANGED <<board, va, vb, vc, vres>>
    /\ UNCHANGED searchVars

NextPv == ExtendPv \/ RootSearch

SpecPv == InitPv /\ [][NextPv]_vars

(***************************************************************************)
(* The recursive searches with the moves behind a value.  A call of        *)
(* minimax of tournament is followed together with the moves that led to   *)
(* the position whose valuation it returns; pvs records such a line        *)
(* itself.                                                                 *)
(***************************************************************************)
RECURSIVE minimax_with_path(_, _, _, _)
RECURSIVE minimax_path_loop(_, _, _, _, _, _)
\* tournament/search.rs, lines 60-86: one move, r being what apply_move gave
minimax_path_step(b, remaining_depth, moves, alpha, beta, best, r) ==
    CHOOSE res \in
        {LET now == IF cmp(c.value, best.value) # "Less" THEN c ELSE best
         IN  IF cmp(c.value, beta) = "Greater" THEN now
             ELSE minimax_path_loop(b, remaining_depth, Tail(moves),
                                    IF cmp(now.value, alpha) = "Greater" THEN now.value
                                    ELSE alpha,
                                    beta, now)
         : c \in
             {[move |-> Head(moves),
               value |-> increase_plies(IF ~r.ret THEN neg(sub.value) ELSE sub.value),
               path |-> <<Head(moves)>> \o sub.path]
              : sub \in
                  {IF ~r.ret
                   THEN minimax_with_path(flip_board(r.board), remaining_depth - 1,
                                          neg(beta), neg(alpha))
                   ELSE minimax_with_path(r.board, remaining_depth, alpha, beta)}}} : TRUE

\* lines 52-87: for house in 0..board.h(), the legal ones
minimax_path_loop(b, remaining_depth, moves, alpha, beta, best) ==
    IF moves = <<>> THEN best
    ELSE minimax_path_step(b, remaining_depth, moves, alpha, beta, best,
                           apply_move(b, Head(moves)))

\* MinimaxWorker::minimax of tournament with the flag true
minimax_with_path(b, remaining_depth, alpha, beta) ==
    IF remaining_depth = 0 \/ ~has_legal_move(b)
    THEN [move |-> Placeholder, value |-> VALUATION_FN(b), path |-> <<>>]
    ELSE minimax_path_loop(b, remaining_depth, legal_move_list(b, "White"), alpha, beta,
                           [move |-> Placeholder, value |-> TerminalBlackWin(0),
                            path |-> <<>>])

\* bounds of the windows a call is handed: those of start_search and values
\* of siblings searched before
WindowBounds ==
    {TerminalBlackWin(0), TerminalBlackWin(2), NonTerminal(0 - 1), NonTerminal(0),
     NonTerminal(1), TerminalWhiteWin(2), TerminalWhiteWin(0)}

Windows ==
    {w \in [alpha : WindowBounds, beta : WindowBounds] : cmp(w.alpha, w.beta) = "Less"}

NoLine == [done |-> FALSE, value |-> NonTerminal(0), line |-> <<>>]

InitPath ==
    /\ board \in DepthBoards
    /\ status = "running"
    /\ last \in {[op |-> "none", max_depth |-> d, alpha |-> w.alpha, beta |-> w.beta,
                  tournament |-> NoLine, pvs |-> NoLine, stack |-> NoLine]
                    : d \in 1..MaxDepth, w \in Windows}
    /\ InitValuationIdle
    /\ InitSearchIdle

\* tournament: minimax(&board, max_depth, alpha, beta), with the moves behind
\* the value it returns; next to it the value of the call on the stack
TournamentPath ==
    /\ ~last.tournament.done
    /\ \E r \in {minimax_with_path(board, last.max_depth, last.alpha, last.beta)},
          s \in {run_minimax("tournament",
                             AtCall(<<NewFrame(board, last.max_depth, last.alpha, last.beta,
                                               <<>>)>>))} :
          last' = [last EXCEPT !.op = "tournament",
                               !.tournament = [done |-> TRUE, value |-> r.value,
                                               line |-> r.path],
                               !.stack = [done |-> TRUE, value |-> s.value,
                                          line |-> <<s.move>>]]
    /\ UNCHANGED <<board, status, va, vb, vc, vres>>
    /\ UNCHANGED searchVars

\* pvs: minimax(&board, max_depth, alpha, beta, &mut line) on a new Line
PvsLine ==
    /\ ~last.pvs.done
    /\ \E r \in {run_minimax("pvs",
                             AtCall(<<NewFrame(board, last.max_depth, last.alpha, last.beta,
                                               <<>>)>>))} :
          last' = [last EXCEPT !.op = "pvs",
                               !.pvs = [done |-> TRUE, value |-> r.value, line |-> r.line]]
    /\ UNCHANGED <<board, status, va, vb, vc, vres>>
    /\ UNCHANGED searchVars

NextPath == TournamentPath \/ PvsLine

SpecPath == InitPath /\ [][NextPath]_vars

(***************************************************************************)
(* The agent over several searches.  Every search has a SearchState (with  *)
(* its mutex) and a worker thread of its own.  The variables cell, lock,   *)
(* worker and hist hold the search of number last.focus; the others are    *)
(* kept in last.others, and the scheduler passes from one to another.  The *)
(* agent's handle is to the search created last, number last.gos.          *)
(***************************************************************************)
\* calls of go() in a run
MaxGos == 2

\* the boards of the agent: one house a side
AgentBoards == {b \in SearchBoards : b.h = 1}

\* the searches the agents of minimax2 and tournament start
AgentVariants == {"minimax2", "tournament"}

\* the search the variables hold
Cur == [cell |-> cell, worker |-> worker, lock |-> lock, hist |-> hist]

\* no go() yet; stop_first: every go() so far came after a stop() of the
\* search before it
NoSearches == [gos |-> 0, focus |-> 0, others |-> <<>>, stop_first |-> TRUE]

InitAgent ==
    /\ board \in AgentBoards
    /\ status = "running"
    /\ last = NoSearches
    /\ InitValuationIdle
    /\ agent = AgentNew
    /\ cell = NoCell
    /\ lock = "none"
    /\ worker \in {NoWorker(variant, board) : variant \in AgentVariants}
    /\ hist = NoHist(board)

\* the searches out of the variables once search number k took their place
parked(k) ==
    [j \in ((DOMAIN last.others) \ {k}) \cup (IF last.focus = 0 THEN {} ELSE {last.focus}) |->
        IF j = last.focus THEN Cur ELSE last.others[j]]

\* MinimaxAgent::go, first or not: a new SearchState, one new thread on it
AgentGo ==
    /\ status = "running"
    /\ agent.pc = "idle"
    /\ last.focus = last.gos
    /\ last.gos < MaxGos
    /\ IF legal_moves(board, "White") = {} \/ ~has_legal_move(board)
       THEN /\ status' = "panicked"
            /\ UNCHANGED <<agent, cell, lock, worker, hist, last>>
       ELSE LET fallback_move == Head(legal_move_list(board, "White"))
            IN  /\ cell' = new_shared_minimax_search_state(TRUE, fallback_move)
                /\ lock' = "none"
                /\ worker' = [NoWorker(worker.variant, board) EXCEPT
                                 !.pc = "iterate",
                                 !.max_depth = first_depth(worker.variant)]
                /\ agent' = [agent EXCEPT !.state = "Go", !.search_state = TRUE]
                /\ hist' = [NoHist(board) EXCEPT !.fallback = fallback_move]
                /\ last' = [gos |-> last.gos + 1, focus |-> last.gos + 1,
                            others |-> parked(last.gos + 1),
                            stop_first |-> last.stop_first /\ ~agent.search_state]
                /\ UNCHANGED status
    /\ UNCHANGED <<board, va, vb, vc, vres>>

\* the calls of the agent that go through its handle
AgentCall ==
    /\ last.focus = last.gos
    /\ last.gos > 0
    /\ Stop \/ GetCurrentBestMove \/ ReturnBestMove

\* the scheduler turns to search number k: to its thread while that runs,
\* or to the search the agent holds
Switch(k) ==
    /\ k \in DOMAIN last.others
    /\ k = last.gos \/ last.others[k].worker.pc \notin {"exited", "panicked"}
    /\ cell' = last.others[k].cell
    /\ lock' = last.others[k].lock
    /\ worker' = last.others[k].worker
    /\ hist' = last.others[k].hist
    /\ last' = [last EXCEPT !.focus = k, !.others = parked(k)]
    /\ UNCHANGED <<board, status, va, vb, vc, vres, agent>>

\* a step of the thread of search number k
WorkerOf(k) == last.focus = k /\ Worker

NextAgent ==
    \/ AgentGo
    \/ AgentCall
    \/ \E k \in 1..MaxGos : Switch(k)
    \/ \E k \in 1..MaxGos : WorkerOf(k)

SpecAgent == InitAgent /\ [][NextAgent]_vars

\* every thread that can take a step is scheduled
SpecAgentFair ==
    /\ InitAgent
    /\ [][NextAgent]_vars
    /\ \A k \in 1..MaxGos : WF_vars(Switch(k)) /\ SF_vars(WorkerOf(k))

(***************************************************************************)
(* Properties of apply_move.                                               *)
(***************************************************************************)
\* the last operation was an apply_move that returned
Applied == last.op = "apply_move" /\ ~last.call.panicked

\* the house the last move names, and the seeds its player has there
StartHouse == MoveHouse(last.move)

MoverHouses ==
    IF MovePlayer(last.move) = "White" THEN last.pre.our_houses ELSE last.pre.their_houses

\* all seeds of a board, as an unbounded sum
RECURSIVE Sum(_)
Sum(q) == IF q = <<>> THEN 0 ELSE Head(q) + Sum(Tail(q))

TotalSeeds(b) == Sum(b.our_houses) + Sum(b.their_houses) + b.our_store + b.their_store

\* one seed into position p of the cycle: 0..h-1 our houses, h our store,
\* h+1..2h their houses
Drop(b, p) ==
    IF p < b.h THEN [b EXCEPT !.our_houses[p + 1] = @ + 1]
    ELSE IF p = b.h THEN [b EXCEPT !.our_store = @ + 1]
    ELSE [b EXCEPT !.their_houses[p - b.h] = @ + 1]

\* k seeds dropped one at a time into the positions after pos
RECURSIVE DropSeeds(_, _, _)
DropSeeds(b, pos, k) ==
    IF k = 0 THEN b
    ELSE LET p == (pos + 1) % (2 * b.h + 1) IN DropSeeds(Drop(b, p), p, k - 1)

\* the position k steps after pos, one step at a time
RECURSIVE Walk(_, _, _)
Walk(h, pos, k) == IF k = 0 THEN pos ELSE Walk(h, (pos + 1) % (2 * h + 1), k - 1)

\* the first k seeds of house start sown one at a time
SownOneByOne(b, start, k) == DropSeeds([b EXCEPT !.our_houses[start + 1] = 0], start, k)

\* C1: across every apply_move of a legal move the total of all houses and
\* both stores is unchanged.
C1_SeedConservation ==
    (Applied /\ last.move \in legal_moves(last.pre, MovePlayer(last.move)))
        => TotalSeeds(board) = TotalSeeds(last.pre)

\* C2: after the sowing step of a White move the houses and the mover's store
\* are those of sowing the start house's seeds one at a time around the cycle
\* of 2h+1 positions.
C2_SowingOneByOne ==
    (Applied /\ MovePlayer(last.move) = "White")
        => LET c == last.call
               r == SownOneByOne(c.wpre, StartHouse, c.wpre.our_houses[StartHouse + 1])
           IN  /\ c.sown.our_houses = r.our_houses
               /\ c.sown.their_houses = r.their_houses
               /\ c.sown.our_store = r.our_store

\* C3: apply_move captures exactly when the last seed lands in a mover's house
\* that was empty just before that seed landed and whose opposite house is
\* non-empty; a capture empties both houses into the mover's store, and
\* without a capture the sown board is left as it is.
C3_CaptureRule ==
    Applied
        => LET c == last.call
               h == c.wpre.h
               n == c.wpre.our_houses[StartHouse + 1]
               j == Walk(h, StartHouse, n)
               before == SownOneByOne(c.wpre, StartHouse, n - 1)
               after == SownOneByOne(c.wpre, StartHouse, n)
               due == /\ j < h
                      /\ before.our_houses[j + 1] = 0
                      /\ after.their_houses[h - j] > 0
           IN  /\ c.captured = due
               /\ c.captured =>
                     /\ c.postcap.our_houses = [c.sown.our_houses EXCEPT ![j + 1] = 0]
                     /\ c.postcap.their_houses = [c.sown.their_houses EXCEPT ![h - j] = 0]
                     /\ c.postcap.our_store = c.sown.our_store + 1 + c.sown.their_houses[h - j]
                     /\ c.postcap.their_store = c.sown.their_store
               /\ ~c.captured => c.postcap = c.sown

\* C4: apply_move returns true exactly when the last seed, counted one
\* position at a time, lands in the mover's store, which is exactly when
\* (start house + seed count) mod (2h+1) = h; for moves of either player.
C4_ExtraTurn ==
    Applied
        => LET h == last.pre.h
               n == MoverHouses[StartHouse + 1]
           IN  /\ last.call.ret = (Walk(h, StartHouse, n) = h)
               /\ last.call.ret = ((StartHouse + n) % (2 * h + 1) = h)

\* an extra turn of Black after a sowing that went around the board
C4_Witness ==
    /\ Applied
    /\ last.call.ret
    /\ MovePlayer(last.move) = "Black"
    /\ MoverHouses[StartHouse + 1] > 2 * last.pre.h + 1

\* C5: a Black move gives the board and the boolean of flip_board, apply_move
\* of the move with its player flipped, flip_board; and no apply_move changes
\* the flipped flag.
C5_FlipApplyFlip ==
    Applied
        => /\ board.flipped = last.pre.flipped
           /\ MovePlayer(last.move) = "Black" =>
                 LET m == flip_player(last.move)
                     r == apply_move(flip_board(last.pre), m)
                 IN  /\ MovePlayer(m) = "White"
                     /\ MoveHouse(m) = StartHouse
                     /\ ~r.panicked
                     /\ board = flip_board(r.board)
                     /\ last.call.ret = r.ret

\* a capturing Black move on a board whose two sides differ
C5_Witness ==
    /\ Applied
    /\ MovePlayer(last.move) = "Black"
    /\ last.call.captured
    /\ last.pre.our_houses # last.pre.their_houses
    /\ last.pre.our_store # last.pre.their_store

\* the board apply_move leaves, in the perspective of its sowing
InnerBoard == IF MovePlayer(last.move) = "Black" THEN flip_board(board) ELSE board

AllEmpty(houses) == \A i \in DOMAIN houses : houses[i] = 0

\* the sweep: each store grows by its own side's houses, all houses are zero
Swept(from, to) ==
    /\ to.our_store = from.our_store + Sum(from.our_houses)
    /\ to.their_store = from.their_store + Sum(from.their_houses)
    /\ AllEmpty(to.our_houses)
    /\ AllEmpty(to.their_houses)

\* C6 as stated: the sweep runs exactly when, after sowing and capture, both
\* sides are without a legal move; it moves each side's houses to its store.
C6_SweepWhenNeitherCanMove ==
    Applied
        => LET c == last.call
           IN  /\ c.swept = (AllEmpty(c.postcap.our_houses) /\ AllEmpty(c.postcap.their_houses))
               /\ c.swept => Swept(c.postcap, InnerBoard)
               /\ ~c.swept => InnerBoard = c.postcap

\* C6: the sweep runs exactly when, after sowing and capture, at least one
\* side is without a legal move (all its houses are empty); it moves each
\* side's houses to that side's store and leaves all 2h houses zero.
C6_SweepWhenOneSideEmpty ==
    Applied
        => LET c == last.call
           IN  /\ c.swept = (AllEmpty(c.postcap.our_houses) \/ AllEmpty(c.postcap.their_houses))
               /\ c.swept => Swept(c.postcap, InnerBoard)
               /\ ~c.swept => InnerBoard = c.postcap

\* a sweep of a Black move that hands the other side its remaining seeds
C6_Witness ==
    /\ Applied
    /\ MovePlayer(last.move) = "Black"
    /\ last.call.swept
    /\ Sum(last.call.postcap.their_houses) > 1
    /\ last.pre.h > 1

\* C7: apply_move of a house index >= h, or of a house that is empty for the
\* move's player, panics, and the board it leaves holds the seeds of the
\* board before: no house has been sown.
C7_IllegalMovesFailFast ==
    (last.op = "apply_move"
        /\ (StartHouse >= last.pre.h \/ MoverHouses[StartHouse + 1] = 0))
        => /\ last.call.panicked
           /\ status = "panicked"
           /\ board \in {last.pre, flip_board(last.pre)}

\* a Black move out of an empty house while another house of Black is full
C7_Witness ==
    /\ status = "panicked"
    /\ MovePlayer(last.move) = "Black"
    /\ StartHouse < last.pre.h
    /\ \E i \in 1..last.pre.h : last.pre.their_houses[i] > 0

(***************************************************************************)
(* Properties of the Valuation order and negation.                         *)
(***************************************************************************)
Leq(o) == o # "Greater"

\* C8: cmp(b, a) is the reverse of cmp(a, b), and a <= b and b <= c imply
\* a <= c, over all four variants.
C8_CmpTotalOrder ==
    vres.op = "cmp"
        => /\ vres.ba = Reverse(vres.ab)
           /\ (Leq(vres.ab) /\ Leq(vres.bc)) => Leq(vres.ac)

\* C9 as stated: a < b implies -a > -b for all Valuations a, b.
C9_NegReversesOrder ==
    (vres.op = "neg" /\ vres.ab = "Less") => vres.nanb = "Greater"

\* C9: a < b implies -a > -b for all Valuations a, b that are not both
\* TerminalDraw and of which neither is NonTerminal{i32::MIN} (the one score
\* whose negation is not representable).
C9_NegReversesOrderButDraws ==
    (/\ vres.op = "neg"
     /\ vres.ab = "Less"
     /\ ~(va.kind = "TerminalDraw" /\ vb.kind = "TerminalDraw")
     /\ va # NonTerminal(I32Min)
     /\ vb # NonTerminal(I32Min))
        => vres.nanb = "Greater"

\* a negative score below a draw, negated to a positive score above it
C9_Witness ==
    /\ vres.op = "neg"
    /\ vres.ab = "Less"
    /\ va.kind = "NonTerminal"
    /\ vb.kind = "TerminalDraw"
    /\ vb.plies > 0
    /\ vres.nanb = "Greater"

\* C10: negation swaps TerminalWhiteWin and TerminalBlackWin with the plies
\* kept, keeps TerminalDraw, negates the score of NonTerminal, and -(-v) = v.
C10_NegInvolution ==
    vres.op = "neg"
        => /\ va.kind = "TerminalWhiteWin" => vres.na = TerminalBlackWin(va.plies)
           /\ va.kind = "TerminalBlackWin" => vres.na = TerminalWhiteWin(va.plies)
           /\ va.kind = "TerminalDraw" => vres.na = va
           /\ va.kind = "NonTerminal" =>
                 /\ vres.na.kind = "NonTerminal"
                 /\ va.value # I32Min => vres.na.value + va.value = 0
           /\ vres.nna = va

\* a White win in some plies, negated to Black's win in as many
C10_Witness ==
    /\ vres.op = "neg"
    /\ va.kind = "TerminalWhiteWin"
    /\ va.plies > 0
    /\ vres.na.kind = "TerminalBlackWin"

\* the three tiers of the order: a White win, an open or drawn game, a Black win
Tier(v) ==
    IF v.kind = "TerminalWhiteWin" THEN 2 ELSE IF v.kind = "TerminalBlackWin" THEN 0 ELSE 1

\* C11: every TerminalWhiteWin is above every NonTerminal and TerminalDraw,
\* which are above every TerminalBlackWin; among White wins fewer plies is
\* greater, among Black wins and among draws more plies is greater; a
\* NonTerminal{v} compares to any draw as v to 0, two NonTerminal by score.
C11_OutcomeRanking ==
    vres.op = "cmp"
        => LET o == vres.ab
           IN  /\ Tier(va) > Tier(vb) => o = "Greater"
               /\ Tier(va) < Tier(vb) => o = "Less"
               /\ (va.kind = "TerminalWhiteWin" /\ vb.kind = "TerminalWhiteWin") =>
                     /\ va.plies < vb.plies => o = "Greater"
                     /\ va.plies > vb.plies => o = "Less"
                     /\ va.plies = vb.plies => o = "Equal"
               /\ (va.kind = vb.kind /\ va.kind \in {"TerminalBlackWin", "TerminalDraw"}) =>
                     /\ va.plies > vb.plies => o = "Greater"
                     /\ va.plies < vb.plies => o = "Less"
                     /\ va.plies = vb.plies => o = "Equal"
               /\ (va.kind = "NonTerminal" /\ vb.kind = "TerminalDraw") =>
                     o = IntCmp(va.value, 0)
               /\ (va.kind = "TerminalDraw" /\ vb.kind = "NonTerminal") =>
                     o = IntCmp(0, vb.value)
               /\ (va.kind = "NonTerminal" /\ vb.kind = "NonTerminal") =>
                     o = IntCmp(va.value, vb.value)

\* a longer loss compared with a shorter one
C11_Witness ==
    /\ vres.op = "cmp"
    /\ va.kind = "TerminalBlackWin"
    /\ vb.kind = "TerminalBlackWin"
    /\ va.plies > vb.plies
    /\ vres.ab = "Greater"

C13_FlipBoard ==
    last.op = "flip_board"
        => /\ board.h = last.pre.h
           /\ \A i \in 1..board.h :
                 /\ board.our_houses[i] = last.pre.their_houses[i]
                 /\ board.their_houses[i] = last.pre.our_houses[i]
           /\ board.our_store = last.pre.their_store
           /\ board.their_store = last.pre.our_store
           /\ board.flipped = ~last.pre.flipped
           /\ flip_board(board) = last.pre

\* a flip of a board whose sides and stores differ
C13_Witness ==
    /\ last.op = "flip_board"
    /\ last.pre.h = 2
    /\ last.pre.our_houses[1] # last.pre.their_houses[1]
    /\ last.pre.our_houses[2] # last.pre.their_houses[2]
    /\ last.pre.our_store # last.pre.their_store


(***************************************************************************)
(* Properties of the search: the agent, the worker and the SearchState.    *)
(***************************************************************************)
\* the move out of the lowest non-empty house of the mover
FirstLegalMove(b) ==
    MoveNew(CHOOSE i \in 0..(b.h - 1) :
                /\ b.our_houses[i + 1] > 0
                /\ \A j \in 0..(i - 1) : b.our_houses[j + 1] = 0,
            "White")

\* C14: from go() until stop() the move held in the SearchState, and any
\* move get_current_best_move has handed out, is a legal move of the mover on
\* the board the search was started on; as long as the worker has written
\* nothing it is the move out of the lowest non-empty house.
C14_LegalDecision ==
    agent.search_state =>
        /\ decision(worker.variant, cell) \in legal_moves(hist.root, "White")
        /\ agent.ret # Placeholder => agent.ret \in legal_moves(hist.root, "White")
        /\ hist.writes = <<>> =>
               decision(worker.variant, cell) = FirstLegalMove(hist.root)

\* a search in flight whose worker has stored a move other than the
\* fallback, and the consumer has fetched it
C14_Witness ==
    /\ agent.search_state
    /\ hist.writes # <<>>
    /\ decision(worker.variant, cell) # hist.fallback
    /\ agent.ret = decision(worker.variant, cell)

\* C15: once the controller has cleared the flag the worker writes neither
\* move nor line again: the SearchState holds what it held at the moment the
\* flag was cleared.
C15_NoWriteAfterCancel ==
    hist.cleared =>
        /\ Len(hist.writes) = hist.at_clear.writes
        /\ cell.current_best_move = hist.at_clear.move
        /\ cell.principal_variation = hist.at_clear.line

\* C16: if the flag is cleared before the worker has completed its first
\* search depth, the decision in the SearchState is still the fallback of
\* go(), the first legal move.
C16_EarlyCancelKeepsFallback ==
    (hist.cleared /\ hist.at_clear.results = 0) =>
        /\ decision(worker.variant, cell) = hist.fallback
        /\ hist.fallback = FirstLegalMove(hist.root)

\* the last record the worker wrote, and whether it is a proven win
LastWrite == hist.writes[Len(hist.writes)]

LastResult == hist.results[Len(hist.results)]

WinWritten == hist.writes # <<>> /\ LastWrite.value.kind = "TerminalWhiteWin"

\* C17: a proven win ends the search.  The write of a TerminalWhiteWin
\* decision is the worker's last write; with it the flag is false in the same
\* step, the worker has exited at that depth and the SearchState holds the
\* winning move or line; for tournament and pvs it is the result of the
\* completed depth, after which no deeper pass is begun; and whenever the
\* worker itself has ended the search on a win, the winning move is what a
\* reader of the inactive SearchState gets.
C17_ProvenWinStops ==
    /\ \A i \in 1..Len(hist.writes) :
           hist.writes[i].value.kind = "TerminalWhiteWin" => i = Len(hist.writes)
    /\ WinWritten =>
           /\ ~cell.search_active
           /\ worker.pc = "exited"
           /\ worker.max_depth = LastWrite.depth
           /\ IF worker.variant = "pvs"
              THEN cell.principal_variation = LastWrite.line
              ELSE cell.current_best_move = LastWrite.move
           /\ worker.variant # "minimax2" => LastWrite = LastResult
    /\ (hist.results # <<>> /\ LastResult.value.kind = "TerminalWhiteWin") =>
           /\ worker.max_depth = LastResult.depth
           /\ worker.pc \in {"after_search", "final", "exited"}
    /\ (worker.pc = "exited" /\ ~hist.cleared
            /\ worker.best_value.kind = "TerminalWhiteWin") => WinWritten
    /\ (WinWritten /\ ~agent.saw /\ agent.pc = "idle" /\ agent.state = "Waiting"
            /\ agent.search_state) =>
           agent.ret = decision(worker.variant, cell)

\* a worker published a first depth, proved a win at the next and ended the
\* search; the consumer saw the flag down and fetched the winning move, which
\* is not the fallback
C17_Witness ==
    /\ WinWritten
    /\ Len(hist.writes) >= 2
    /\ ~hist.cleared
    /\ ~agent.saw /\ agent.pc = "idle"
    /\ agent.ret = decision(worker.variant, cell)
    /\ agent.ret # hist.fallback

\* C18 (pvs): the depths whose search ran to its end with the flag true
\* throughout are 1, 2, 3, ... in this order; every line the worker stores is
\* the root line of such a depth, with that depth's value; the stored results
\* are in strictly increasing depth order; and the line a reader finds in the
\* SearchState is the seed or the last line stored, never the line of a
\* depth in progress.
C18_PublishCompletedDepths ==
    worker.variant = "pvs" =>
        /\ \A i \in 1..Len(hist.results) : hist.results[i].depth = i
        /\ \A i \in 1..Len(hist.writes) :
               \E j \in 1..Len(hist.results) : hist.results[j] = hist.writes[i]
        /\ \A i, j \in 1..Len(hist.writes) :
               i < j => hist.writes[i].depth < hist.writes[j].depth
        /\ worker.pc # "unborn" =>
               /\ worker.max_depth \in {Len(hist.results), Len(hist.results) + 1}
                     \/ ~cell.search_active
               /\ cell.principal_variation =
                      IF hist.writes = <<>> THEN seed_line(hist.fallback)
                      ELSE LastWrite.line

\* the pvs worker has stored the line of depth 1 and is inside the search of
\* depth 2, where the line of its root call is not the stored one
C18_Witness ==
    /\ worker.variant = "pvs"
    /\ Len(hist.writes) = 1
    /\ worker.max_depth = 2 /\ worker.stage = "main" /\ worker.pc = "expand"
    /\ Len(worker.stack) >= 2
    /\ worker.stack[Len(worker.stack)].principal_line # cell.principal_variation
    /\ cell.search_active

\* the searches whose minimax reads the flag at every entry
Cooperative == worker.variant \in {"tournament", "pvs"}

SearchWork == {"expand", "cancelled", "iterate", "search_move"}

\* C20: the worker never holds the mutex of the SearchState while it is
\* inside a recursive search call or applying a move: it holds it only at
\* the points where it reads the flag or writes its decision; and a mutex
\* held by the worker is released after finitely many steps of the worker,
\* so that stop() and get_current_best_move() get it and neither thread
\* waits for ever.
C20_LockNotHeldAcrossSearch ==
    /\ [](worker.pc \in SearchWork => lock = "none")
    /\ [](lock = "worker" => worker.pc \in LockPoints)
    /\ (lock = "worker") ~> (lock = "none")

\* the worker is three calls deep in minimax without the mutex while the
\* consumer, between the two locks of get_current_best_move, has taken and
\* released it
C20_Witness ==
    /\ lock = "none"
    /\ worker.pc = "expand"
    /\ Len(worker.stack) >= 3
    /\ agent.pc = "get_move"

(***************************************************************************)
(* Properties of the searches as functions of board and depth.            *)
(***************************************************************************)
\* the workers of move_ordering (pruning off) and of minimax2 both ran on the
\* board and ended with the pass of the same depth
BothFullWidth ==
    /\ last.move_ordering.done
    /\ last.minimax2.done
    /\ last.move_ordering.depth = last.minimax2.depth

\* C21: on every board with a legal move and at every depth the worker of
\* minimax_move_ordering with ALPHA_BETA_PRUNE = false ends with the same
\* root value and the same best move as the full-width worker of minimax2
C21_NoPruningEquivalence ==
    BothFullWidth =>
        /\ last.move_ordering.value = last.minimax2.value
        /\ last.move_ordering.move = last.minimax2.move

(***************************************************************************)
(* Properties of the agent.                                                *)
(***************************************************************************)
\* the move of the worker's last write, as a reader of the SearchState gets it
LastPublished ==
    IF worker.variant = "pvs" THEN best_move(LastWrite.line) ELSE LastWrite.move

\* C22: the agent starts in state Waiting without a search.  go() that finds
\* a legal move puts it into state Go with a fresh SearchState: flag true,
\* the first legal move as the fallback.  stop() on an agent that holds a
\* SearchState puts it into state Waiting, sets the flag of that SearchState
\* to false and drops the handle.  get_current_best_move() aborts in every
\* state but Go and is answered in state Go.  A poll in state Go that reads
\* the flag false puts the agent into state Waiting and returns the move of
\* the worker's last write, the worker having exited.
C22_AgentStateMachine ==
    /\ agent.state = "Waiting" /\ ~agent.search_state
    /\ [][/\ (Go /\ status' = "running") =>
                 /\ agent'.state = "Go"
                 /\ agent'.search_state
                 /\ cell' = [search_active |-> TRUE,
                             current_best_move |-> FirstLegalMove(board),
                             principal_variation |-> cell'.principal_variation]
          /\ (Stop /\ agent.search_state) =>
                 /\ status' = "running"
                 /\ agent'.state = "Waiting"
                 /\ ~agent'.search_state
                 /\ ~cell'.search_active
          /\ (GetCurrentBestMove /\ agent.state # "Go") =>
                 status' = "panicked" /\ agent' = agent
          /\ (GetCurrentBestMove /\ agent.state = "Go") =>
                 status' = "running" /\ agent'.pc = "get_move"
          /\ (GetCurrentBestMove /\ agent.state = "Go" /\ ~cell.search_active) =>
                 agent'.state = "Waiting"
          /\ (GetCurrentBestMove /\ agent.state = "Go" /\ cell.search_active) =>
                 agent'.state = "Go"
          /\ (ReturnBestMove /\ ~agent.saw) =>
                 /\ agent'.state = "Waiting"
                 /\ worker.pc = "exited"
                 /\ hist.writes # <<>>
                 /\ agent'.ret = LastPublished]_vars

\* the worker ended its search by itself; a poll in state Go read the flag
\* false, put the agent into state Waiting and returned the worker's last
\* move, which is not the fallback; the agent still holds the SearchState
C22_Witness ==
    /\ ~hist.cleared
    /\ worker.pc = "exited"
    /\ ~agent.saw /\ agent.pc = "idle"
    /\ agent.state = "Waiting" /\ agent.search_state
    /\ hist.writes # <<>>
    /\ agent.ret = LastPublished
    /\ agent.ret # hist.fallback

(***************************************************************************)
(* Properties of construction and of the text records.                    *)
(***************************************************************************)
\* the canonical record of h, two stores and two rows of houses
Listing(h, a, b, x, y) ==
    <<"<">> \o to_decimal(h) \o <<",", " ">> \o to_decimal(a) \o <<",", " ">> \o to_decimal(b)
        \o write_seeds(x) \o write_seeds(y) \o <<">">>

\* C23: from_kpg accepts every well-formed record in canonical form and
\* gives the unflipped board of its numbers: h houses a side, our_store = a,
\* their_store = b, our houses x and their houses y; and to_kgp of that
\* board is the record, character by character.
C23_TextRoundTrip ==
    /\ (last.op = "from_kpg" /\ last.canonical) =>
           /\ status = "running"
           /\ board.h = last.nums[1]
           /\ Len(board.our_houses) = board.h /\ Len(board.their_houses) = board.h
           /\ board.our_store = last.nums[2]
           /\ board.their_store = last.nums[3]
           /\ board.our_houses = SubSeq(last.nums, 4, 3 + board.h)
           /\ board.their_houses = SubSeq(last.nums, 4 + board.h, 3 + 2 * board.h)
    /\ (last.op = "to_kgp" /\ last.read /\ last.canonical) => last.kgp = last.kpg

\* a record of two houses a side with numbers of one, two and five digits
\* has been read and written back
C23_Witness ==
    /\ last.op = "to_kgp" /\ last.read /\ last.canonical
    /\ board.h = 2
    /\ board.our_store = 65535 /\ board.their_store = 3
    /\ board.our_houses = <<12, 0>> /\ board.their_houses = <<7, 12>>
    /\ last.kgp = last.kpg

\* C24 as claimed: to_kgp lists h, our_store, their_store, our_houses and
\* their_houses as the accessors return them, on a flipped board too
C24_TextInCurrentPerspective ==
    last.op = "to_kgp" =>
        last.kgp = Listing(board.h, board.our_store, board.their_store,
                           board.our_houses, board.their_houses)

\* C24 as the code has it: to_kgp lists the board in the perspective of the
\* unflipped board.  On an unflipped board that is h, our_store,
\* their_store, our_houses, their_houses; on a flipped board it is h,
\* their_store, our_store, their_houses, our_houses, the record of the board
\* flipped back.
C24_TextInUnflippedPerspective ==
    last.op = "to_kgp" =>
        /\ ~board.flipped =>
               last.kgp = Listing(board.h, board.our_store, board.their_store,
                                  board.our_houses, board.their_houses)
        /\ board.flipped =>
               /\ last.kgp = Listing(board.h, board.their_store, board.our_store,
                                     board.their_houses, board.our_houses)
               /\ last.kgp = to_kgp(flip_board(board))

\* a flipped board whose sides differ has been written
C24_Witness ==
    /\ last.op = "to_kgp"
    /\ board.flipped
    /\ board.our_store # board.their_store
    /\ board.our_houses # board.their_houses
    /\ last.kgp # Listing(board.h, board.our_store, board.their_store,
                          board.our_houses, board.their_houses)

\* C25: Board::new(h, s) with h <= 128 gives a board of h houses a side,
\* each of the 2h houses holding s, both stores 0, not flipped; with h > 128
\* the construction fails.
C25_NewBoard ==
    last.op = "new" =>
        IF last.h <= 128
        THEN /\ status = "running"
             /\ board.h = last.h
             /\ Len(board.our_houses) = last.h /\ Len(board.their_houses) = last.h
             /\ \A i \in 1..last.h :
                    board.our_houses[i] = last.s /\ board.their_houses[i] = last.s
             /\ board.our_store = 0 /\ board.their_store = 0
             /\ ~board.flipped
        ELSE status = "panicked"

\* the largest board has been built, every house holding the largest count
C25_Witness ==
    /\ last.op = "new" /\ status = "running"
    /\ last.h = 128 /\ last.s = 65535
    /\ board.h = 128
    /\ board.our_houses[128] = 65535 /\ board.their_houses[1] = 65535

(***************************************************************************)
(* Properties of legal_moves and is_legal_move.                            *)
(***************************************************************************)
\* the houses of a side as legal_moves and is_legal_move look at them
SideOf(b, player) == IF player = "White" THEN b.our_houses ELSE b.their_houses

\* C26: legal_moves(p) is the list, in increasing house index, of exactly
\* the moves (i, p) whose house i of side p (ours for White, theirs for
\* Black) is not empty; is_legal_move(m) returns true exactly for the moves
\* of legal_moves(m.player()), and the only moves it does not answer for are
\* beyond the board and in no such list; and apply_move does not abort on a
\* move of legal_moves of the board it is applied to.
C26_LegalMoves ==
    /\ last.op = "legal_moves" =>
           /\ \A k \in 1..Len(last.moves) :
                  /\ MovePlayer(last.moves[k]) = last.player
                  /\ MoveHouse(last.moves[k]) < board.h
                  /\ SideOf(board, last.player)[MoveHouse(last.moves[k]) + 1] # 0
           /\ \A k \in 1..(Len(last.moves) - 1) :
                  MoveHouse(last.moves[k]) < MoveHouse(last.moves[k + 1])
           /\ \A i \in 0..(board.h - 1) :
                  SideOf(board, last.player)[i + 1] # 0 =>
                      \E k \in 1..Len(last.moves) : last.moves[k] = MoveNew(i, last.player)
    /\ last.op = "is_legal_move" =>
           LET listed == \E k \in 1..Len(legal_move_list(board, MovePlayer(last.move))) :
                             legal_move_list(board, MovePlayer(last.move))[k] = last.move
           IN  /\ status = "running" => (last.ret <=> listed)
               /\ status = "panicked" => (~listed /\ MoveHouse(last.move) >= board.h)
    /\ last.op = "apply_move" =>
           ((\E k \in 1..Len(legal_move_list(last.pre, MovePlayer(last.move))) :
                 legal_move_list(last.pre, MovePlayer(last.move))[k] = last.move)
                => (~last.call.panicked /\ status = "running"))

\* a move of legal_moves(Black) out of a house holding exactly one full
\* round of 2h + 1 seeds, on a board where Black has two legal moves, has
\* been applied and has returned
C26_Witness ==
    /\ last.op = "apply_move" /\ ~last.call.panicked
    /\ MovePlayer(last.move) = "Black"
    /\ last.pre.h = 2
    /\ Len(legal_move_list(last.pre, "Black")) = 2
    /\ legal_move_list(last.pre, "Black")[2] = last.move
    /\ last.pre.their_houses[MoveHouse(last.move) + 1] = 2 * last.pre.h + 1

(***************************************************************************)
(* Properties of a Line.                                                   *)
(***************************************************************************)
\* the length overwrite or append was to give the line
Combined ==
    IF last.op = "overwrite" THEN 1 + Len(last.other) ELSE Len(last.pre) + Len(last.other)

\* C27: overwrite(head, tail) and append(other) succeed, leaving head
\* followed by tail (self followed by other), whenever the combined length
\* is at most LINE_MAX_SIZE = 100; they fail, nothing written beyond the
\* array, whenever it is more; and no line is longer than 100.
C27_LineBound ==
    /\ Len(last.line) <= LINE_MAX_SIZE
    /\ last.reach <= LINE_MAX_SIZE
    /\ (last.op \in {"overwrite", "append"} /\ Combined <= LINE_MAX_SIZE) =>
           /\ status = "running"
           /\ last.line = IF last.op = "overwrite" THEN <<last.head>> \o last.other
                          ELSE last.pre \o last.other
    /\ (last.op \in {"overwrite", "append"} /\ Combined > LINE_MAX_SIZE) =>
           status = "panicked"

\* C28: on every board with a legal move and at every depth the root call
\* of the negamax alpha-beta search with the full window (tournament and
\* pvs) returns the value (variant, plies and score) that maximise of the
\* reference search returns at the same depth.
C28_PruningSound ==
    /\ (last.tournament.done /\ last.reference.done) =>
           last.tournament.value = last.reference.value
    /\ (last.pvs.done /\ last.reference.done) =>
           last.pvs.value = last.reference.value

(***************************************************************************)
(* Properties of the alpha-beta cutoff.                                    *)
(***************************************************************************)
\* the calls of minimax that wait for a child: all frames but the running one
Waiting == {worker.stack[i] : i \in 2..Len(worker.stack)}

\* a call whose best value so far is the value of a child it examined
HasBest(f) == f.best_move # Placeholder

\* C29 as claimed: at every node of the alpha-beta search (tournament and
\* pvs), as soon as the value of a child reaches or exceeds beta the node
\* examines no further move: a call that has gone on to another child holds
\* a best value below its beta
C29_CutoffAtBeta ==
    \A f \in Waiting : HasBest(f) => cmp(f.best_value, f.beta) = "Less"

\* C29 as the code has it: a node examines no further move as soon as the
\* value of a child is above beta; a value equal to beta does not end the
\* node.  A call that has gone on to another child holds a best value that
\* is not above its beta
C29_CutoffAboveBeta ==
    \A f \in Waiting : HasBest(f) => cmp(f.best_value, f.beta) # "Greater"

\* below the root, in a window narrowed by an earlier move, a child returned
\* a value equal to beta and the node has gone on to its next move
C29_Witness ==
    \E i \in 2..(Len(worker.stack) - 1) :
        /\ HasBest(worker.stack[i])
        /\ cmp(worker.stack[i].best_value, worker.stack[i].beta) = "Equal"
        /\ worker.stack[i].beta # TerminalWhiteWin(0)
        /\ worker.stack[i].house > 0

(***************************************************************************)
(* Properties of a proven loss.                                            *)
(***************************************************************************)
LossWritten == hist.writes # <<>> /\ LastWrite.value.kind = "TerminalBlackWin"

\* the value of a root move at a depth, searched in full width: for
\* tournament and pvs the root is a call of minimax, for minimax2 the root
\* moves are searched by start_search
RootMoveValue(variant, r, move_, depth) ==
    IF variant = "minimax2" THEN root_value(apply_move(r, move_), depth)
    ELSE child_value(apply_move(r, move_), depth)

C36_IncreasePlies ==
    vres.op = "increase_plies" =>
        /\ va.kind = "NonTerminal" => vres.inc = va
        /\ va.kind # "NonTerminal" =>
              /\ vres.inc.kind = va.kind
              /\ vres.inc.plies = va.plies + 1
              /\ vres.inc.value = va.value
        /\ vres.inc_neg = vres.neg_inc

\* a white win in one ply became a white win in two, its negation a black
\* win in two
C36_Witness ==
    /\ vres.op = "increase_plies"
    /\ va = TerminalWhiteWin(1)
    /\ vres.inc = TerminalWhiteWin(2)
    /\ vres.inc_neg = TerminalBlackWin(2)

(***************************************************************************)
(* Properties of the valuation functions under flip_board.                 *)
(***************************************************************************)
\* the store of the real First player and of the real Second player
FirstStore(b) == IF b.flipped THEN b.their_store ELSE b.our_store

SecondStore(b) == IF b.flipped THEN b.our_store ELSE b.their_store

\* C39 as stated: a board and its flip_board image receive the same
\* Valuation, and a TerminalWhiteWin is returned only when the store of the
\* real First player is the larger one.
C39_FirstPlayerView ==
    last.op = "evaluate_flipped" =>
        /\ last.flipped_val = last.val
        /\ \A v \in {last.val.store_diff, last.val.seed_diff} :
              v.kind = "TerminalWhiteWin" => FirstStore(last.pre) > SecondStore(last.pre)

\* C39 as the code has it: the value is from the point of view of the side
\* the board presents as ours, so the flip_board image of a board receives
\* the negated Valuation, and a TerminalWhiteWin is returned only when
\* our_store is the larger store.
C39_OurSideView ==
    last.op = "evaluate_flipped" =>
        /\ last.flipped_val.store_diff = neg(last.val.store_diff)
        /\ last.flipped_val.seed_diff = neg(last.val.seed_diff)
        /\ \A v \in {last.val.store_diff, last.val.seed_diff} :
              v.kind = "TerminalWhiteWin" => last.pre.our_store > last.pre.their_store
        /\ \A v \in {last.flipped_val.store_diff, last.flipped_val.seed_diff} :
              v.kind = "TerminalWhiteWin" => last.pre.their_store > last.pre.our_store

\* a finished board won by the real Second player, seen from that player's
\* side: a TerminalWhiteWin, and a TerminalBlackWin for its flip_board image
C39_Witness ==
    /\ last.op = "evaluate_flipped"
    /\ last.pre.flipped
    /\ FirstStore(last.pre) < SecondStore(last.pre)
    /\ last.val.store_diff = TerminalWhiteWin(0)
    /\ last.flipped_val.store_diff = TerminalBlackWin(0)
    /\ last.val.seed_diff = TerminalWhiteWin(0)

(***************************************************************************)
(* Properties of the stores under apply_move.                              *)
(***************************************************************************)
\* the store of the side that moved and of the side that did not, on a board
\* in the perspective apply_move was called in
MoverStore(b, move_) == IF MovePlayer(move_) = "White" THEN b.our_store ELSE b.their_store

OtherStore(b, move_) == IF MovePlayer(move_) = "White" THEN b.their_store ELSE b.our_store

\* C35: across apply_move neither real player's store decreases, and the
\* store of the player who did not move is unchanged unless the move ends the
\* game, in which case it grows by exactly the seeds left in that player's
\* own houses.
C35_StoresOnlyGrow ==
    last.op = "apply_move" =>
        /\ FirstStore(board) >= FirstStore(last.pre)
        /\ SecondStore(board) >= SecondStore(last.pre)
        /\ ~last.call.panicked =>
              /\ MoverStore(board, last.move) >= MoverStore(last.pre, last.move)
              /\ ~last.call.swept =>
                    OtherStore(board, last.move) = OtherStore(last.pre, last.move)
              /\ last.call.swept =>
                    OtherStore(board, last.move) =
                        OtherStore(last.pre, last.move)
                            + SumHouses(last.call.postcap.their_houses)

\* a move of Black captured and ended the game: Black's store grew by the
\* capture, the store of White by the seeds left in White's houses
C35_Witness ==
    /\ last.op = "apply_move"
    /\ ~last.call.panicked
    /\ MovePlayer(last.move) = "Black"
    /\ last.call.captured
    /\ last.call.swept
    /\ SumHouses(last.call.postcap.their_houses) > 0
    /\ board.our_store = last.pre.our_store + SumHouses(last.call.postcap.their_houses)
    /\ board.their_store > last.pre.their_store

(***************************************************************************)
(* Properties of the boards of a game.                                     *)
(***************************************************************************)
\* C34: on every board reached from Board::new(h, s), s > 0, by legal moves
\* either both sides have a non-empty house or all 2h houses are zero; so
\* has_legal_move() is true iff legal_moves(White) is non-empty iff
\* legal_moves(Black) is non-empty, and a node that passes the has_legal_move
\* check has a move to try.
C34_LiveOrSwept ==
    /\ status = "running"
    /\ \/ /\ \E i \in 1..board.h : board.our_houses[i] # 0
          /\ \E i \in 1..board.h : board.their_houses[i] # 0
       \/ AllEmpty(board.our_houses) /\ AllEmpty(board.their_houses)
    /\ has_legal_move(board) <=> legal_moves(board, "White") # {}
    /\ has_legal_move(board) <=> legal_moves(board, "Black") # {}
    /\ has_legal_move(board) => legal_move_list(board, "White") # <<>>

\* a legal move left the mover with seeds and the other side with none, and
\* the board was swept
C34_Witness ==
    /\ last.op = "apply_move"
    /\ has_legal_move(last.pre)
    /\ SumHouses(last.call.postcap.our_houses) > 0
    /\ AllEmpty(last.call.postcap.their_houses)
    /\ last.call.swept
    /\ AllEmpty(board.our_houses) /\ AllEmpty(board.their_houses)
    /\ ~has_legal_move(board)

(***************************************************************************)
(* Properties of the recursion of minimax.                                 *)
(***************************************************************************)
\* the call k of the stack was made by the call k + 1 for an extra turn
ExtraTurnCall(k) == ~worker.stack[k + 1].their_turn

\* C31: with the flag staying true the root call of minimax returns: a call
\* for an extra turn keeps the remaining depth and runs on a board whose
\* store of the mover has grown, every other call runs one level lower.
C31_SearchTerminates ==
    /\ [](\A k \in 1..(Len(worker.stack) - 1) :
             IF ExtraTurnCall(k)
             THEN /\ worker.stack[k].remaining_depth = worker.stack[k + 1].remaining_depth
                  /\ worker.stack[k].board.our_store > worker.stack[k + 1].board.our_store
             ELSE worker.stack[k].remaining_depth + 1 = worker.stack[k + 1].remaining_depth)
    /\ <>(worker.pc = "returned")

\* two extra turns in a row: three calls at the same remaining depth
C31_Witness ==
    /\ worker.pc = "search"
    /\ Len(worker.stack) >= 3
    /\ ExtraTurnCall(1)
    /\ ExtraTurnCall(2)
    /\ worker.stack[1].remaining_depth = worker.stack[3].remaining_depth
    /\ worker.stack[1].board.our_store = worker.stack[3].board.our_store + 2

(***************************************************************************)
(* Properties of the principal variation.                                  *)
(***************************************************************************)
\* C32: every line the pvs worker publishes is non-empty, starts with a
\* legal root move and replays from the root board by legal moves only, and
\* so does every line handed to extend_pv, which never hits the assertion of
\* apply_move.
C32_PvLegalLine ==
    /\ last.op = "root_search" /\ status = "running" =>
          /\ last.published # <<>>
          /\ last.published[1] \in legal_moves(board, "White")
          /\ ~replay(board, last.published).panicked
    /\ last.op = "extend_pv" => ~replay(board, last.handed).panicked

(***************************************************************************)
(* Properties of pvs next to the alpha-beta search of tournament.          *)
(***************************************************************************)
\* the value of a root move for the alpha-beta search: lines 63-71 of
\* tournament/search.rs with the full window handed to the child
AlphaBetaMoveValue(b, move_, depth) ==
    CHOOSE res \in
        {increase_plies(
             IF ~r.ret
             THEN neg(full_window_minimax("tournament", flip_board(r.board), depth - 1).value)
             ELSE full_window_minimax("tournament", r.board, depth).value)
         : r \in {apply_move(b, move_)}} : TRUE

\* both root calls were made on the board, at a depth of at least one
BothAlphaBeta ==
    last.tournament.done /\ last.pvs.done /\ last.max_depth >= 1

\* C33: started with the same full window the root calls of pvs and of the
\* alpha-beta search return the same value, and the first move of the line
\* of pvs is a legal root move that attains that value.
C33_PvsSameAsAlphaBeta ==
    BothAlphaBeta =>
        /\ last.pvs.value = last.tournament.value
        /\ last.pvs.move \in legal_moves(board, "White")
        /\ AlphaBetaMoveValue(board, last.pvs.move, last.max_depth) = last.pvs.value

(***************************************************************************)
(* Properties of the ply counters.                                         *)
(***************************************************************************)
Terminal(v) == v.kind \in {"TerminalWhiteWin", "TerminalBlackWin", "TerminalDraw"}

\* the line leads from the board to a finished position, by legal moves
EndsTheGame(b, line) ==
    \E rep \in {replay(b, line)} : ~rep.panicked /\ ~has_legal_move(rep.board)

\* C37: a terminal value a call of the recursive search returns counts in
\* its plies the moves from the node to the finished position that produced
\* it; in pvs the plies are the length of the line recorded for the node
\* (taken for the calls with the full window, which always record a line).
C37_PliesCountMoves ==
    /\ last.tournament.done /\ Terminal(last.tournament.value) =>
          /\ last.tournament.value.plies = Len(last.tournament.line)
          /\ EndsTheGame(board, last.tournament.line)
    /\ (/\ last.pvs.done /\ Terminal(last.pvs.value)
        /\ last.alpha = TerminalBlackWin(0) /\ last.beta = TerminalWhiteWin(0)) =>
          last.pvs.value.plies = Len(last.pvs.line)


\* search number k, in the variables or out of them
SearchOf(k) == IF k = last.focus THEN Cur ELSE last.others[k]

\* the searches go() has started so far
Ids == 1..last.gos

\* stop() took the handle of search number k
Stopped(k) == IF k \in Ids THEN SearchOf(k).hist.cleared ELSE FALSE

\* the thread of search number k has returned
Returned(k) == IF k \in Ids THEN SearchOf(k).worker.pc = "exited" ELSE FALSE

\* the thread of search number k has not returned
Running(k) == SearchOf(k).worker.pc \notin {"unborn", "exited", "panicked"}

\* C38: a call of go() that returns adds one search, whose state is new
\* (flag true, the first legal move as the move) and whose thread stands at
\* its first pass, and touches no search before it; a call of stop() on a
\* held state leaves the flag of the search created last false and touches no
\* other search; when every go() came after a stop() of the search before
\* it, at most one search has a thread not yet returned and a true flag; and
\* the thread of every search that was stopped returns.
C38_OneWorkerPerSearch ==
    /\ [][(last'.gos = last.gos + 1) =>
             /\ SearchOf(last.gos)'.cell =
                    new_shared_minimax_search_state(
                        TRUE, Head(legal_move_list(board, "White")))
             /\ SearchOf(last.gos)'.worker.pc = "iterate"
             /\ SearchOf(last.gos)'.worker.stack = <<>>
             /\ \A k \in Ids : SearchOf(k)' = SearchOf(k)]_vars
    /\ [][(agent.search_state /\ ~agent'.search_state) =>
             /\ ~SearchOf(last.gos)'.cell.search_active
             /\ \A k \in Ids \ {last.gos} : SearchOf(k)' = SearchOf(k)]_vars
    /\ [](last.stop_first =>
             Cardinality({k \in Ids : Running(k) /\ SearchOf(k).cell.search_active}) <= 1)
    /\ \A n \in 1..MaxGos :
           Stopped(n) ~> Returned(n)

\* C38 witness: the second go() came after the stop() of the first search,
\* whose thread has not yet returned, and the second search runs with a true
\* flag
C38_Witness ==
    /\ last.stop_first
    /\ last.gos = 2
    /\ SearchOf(1).hist.cleared
    /\ Running(1)
    /\ Running(2)
    /\ SearchOf(2).cell.search_active
    /\ ~SearchOf(1).cell.search_active

====
